---- MODULE Spec2Model ----
(***************************************************************************)
(* Model of the UhakikiAI validation and risk-scoring engine               *)
(* (src/src/lib/validation.ts).                                            *)
(*                                                                         *)
(* Strings are sequences of one-character strings.  An optional value      *)
(* (a field that may be undefined, or an object that may be null) is a     *)
(* sequence of length 0 (absent) or 1 (present).  The OCR confidence is    *)
(* kept in hundredths (0..100 stands for 0.00..1.00), and the accumulated  *)
(* risk in hundredths of a risk point, so that the weights 0.30, 0.25,     *)
(* 0.20, 0.15 and 0.10 are the integers 30, 25, 20, 15 and 10.             *)
(***************************************************************************)
EXTENDS Integers, Sequences, FiniteSets, TLC

VARIABLES now, ticks, pc, call, ret

\* the state of the scan screen (ForensicScanner and its two hooks), the
\* activation of handleScan, the Dashboard above it and the verifications table
VARIABLES uploadedFile, previewUrl, biometricCapture, isScanning, showResults,
          isExtracting, useOCRResult, isBiometricVerifying, biometricVerifyResult,
          scanPc, frame, events, dashboard, onScanCompleteArgs,
          pendingInserts, verifications

engineVars == <<now, ticks, pc, call, ret>>

scanVars ==
  <<uploadedFile, previewUrl, biometricCapture, isScanning, showResults,
    isExtracting, useOCRResult, isBiometricVerifying, biometricVerifyResult,
    scanPc, frame, events, dashboard, onScanCompleteArgs,
    pendingInserts, verifications>>

vars == <<engineVars, scanVars>>

----------------------------------------------------------------------------
(* Optional values and strings *)

Absent == <<>>

Some(v) == <<v>>

IsPresent(opt) == opt # <<>>

Get(opt) == opt[1]

\* JavaScript `s || ''` on an optional string
OrEmpty(opt) == IF IsPresent(opt) THEN Get(opt) ELSE <<>>

\* JavaScript `n || 0` on an optional number
OrZero(opt) == IF IsPresent(opt) THEN Get(opt) ELSE 0

\* JavaScript truthiness of an optional boolean
Truthy(opt) == IsPresent(opt) /\ Get(opt)

Digits == <<"0", "1", "2", "3", "4", "5", "6", "7", "8", "9">>

LowerLetters ==
  <<"a", "b", "c", "d", "e", "f", "g", "h", "i", "j", "k", "l", "m",
    "n", "o", "p", "q", "r", "s", "t", "u", "v", "w", "x", "y", "z">>

UpperLetters ==
  <<"A", "B", "C", "D", "E", "F", "G", "H", "I", "J", "K", "L", "M",
    "N", "O", "P", "Q", "R", "S", "T", "U", "V", "W", "X", "Y", "Z">>

Whitespace == {" ", "\t", "\n"}

IsDigit(c) == \E i \in 1..Len(Digits) : Digits[i] = c

IsUpper(c) == \E i \in 1..Len(UpperLetters) : UpperLetters[i] = c

IsLower(c) == \E i \in 1..Len(LowerLetters) : LowerLetters[i] = c

DigitValue(c) == (CHOOSE i \in 1..Len(Digits) : Digits[i] = c) - 1

UpperOf(c) ==
  IF IsLower(c)
  THEN UpperLetters[CHOOSE i \in 1..Len(LowerLetters) : LowerLetters[i] = c]
  ELSE c

LowerOf(c) ==
  IF IsUpper(c)
  THEN LowerLetters[CHOOSE i \in 1..Len(UpperLetters) : UpperLetters[i] = c]
  ELSE c

toUpperCase(s) == [i \in 1..Len(s) |-> UpperOf(s[i])]

toLowerCase(s) == [i \in 1..Len(s) |-> LowerOf(s[i])]

trim(s) ==
  LET keep == {i \in 1..Len(s) : s[i] \notin Whitespace}
  IN  IF keep = {} THEN <<>>
      ELSE LET lo == CHOOSE i \in keep : \A j \in keep : i <= j
               hi == CHOOSE i \in keep : \A j \in keep : j <= i
           IN  SubSeq(s, lo, hi)

AllDigits(s) == \A i \in 1..Len(s) : IsDigit(s[i])

AllUpper(s) == \A i \in 1..Len(s) : IsUpper(s[i])

\* String.prototype.includes
includes(s, part) ==
  \E i \in 0..(Len(s) - Len(part)) : SubSeq(s, i + 1, i + Len(part)) = part

\* Number() of a string of decimal digits
RECURSIVE Number(_)
Number(s) ==
  IF s = <<>> THEN 0
  ELSE 10 * Number(SubSeq(s, 1, Len(s) - 1)) + DigitValue(s[Len(s)])

----------------------------------------------------------------------------
(* Field validators *)

\* /^\d{8,12}\/\d{4}$/
IndexPatternStandard(s) ==
  \E k \in 8..12 :
    /\ Len(s) = k + 5
    /\ AllDigits(SubSeq(s, 1, k))
    /\ s[k + 1] = "/"
    /\ AllDigits(SubSeq(s, k + 2, k + 5))

\* /^\d{2,4}\/\d{3,5}\/\d{4}$/
IndexPatternAlternative(s) ==
  \E a \in 2..4 : \E b \in 3..5 :
    /\ Len(s) = a + b + 6
    /\ AllDigits(SubSeq(s, 1, a))
    /\ s[a + 1] = "/"
    /\ AllDigits(SubSeq(s, a + 2, a + b + 1))
    /\ s[a + b + 2] = "/"
    /\ AllDigits(SubSeq(s, a + b + 3, a + b + 6))

\* /^[A-Z]{1,3}\d{6,10}$/
IndexPatternCode(s) ==
  \E a \in 1..3 : \E b \in 6..10 :
    /\ Len(s) = a + b
    /\ AllUpper(SubSeq(s, 1, a))
    /\ AllDigits(SubSeq(s, a + 1, a + b))

INDEX_NUMBER_PATTERNS(s) ==
  IndexPatternStandard(s) \/ IndexPatternAlternative(s) \/ IndexPatternCode(s)

validateIndexNumberBug(indexNumber) ==
  IF indexNumber = <<>> THEN FALSE
  ELSE INDEX_NUMBER_PATTERNS(trim(indexNumber))

validateIndexNumber(indexNumber) ==
  IF indexNumber = <<>> THEN FALSE
  ELSE INDEX_NUMBER_PATTERNS(toUpperCase(trim(indexNumber)))

Str1(a) == <<a>>

Str2(a, b) == <<a, b>>

VALID_GRADES ==
  { Str1("A"), Str2("A", "-"), Str2("B", "+"), Str1("B"), Str2("B", "-"),
    Str2("C", "+"), Str1("C"), Str2("C", "-"), Str2("D", "+"), Str1("D"),
    Str2("D", "-"), Str1("E") }

validateGrade(grade) ==
  IF grade = <<>> THEN FALSE
  ELSE trim(toUpperCase(grade)) \in VALID_GRADES

----------------------------------------------------------------------------
(* validateDateOfBirth: the clock is the variable now = [year, month, day] *)

IsLeap(y) == (y % 4 = 0 /\ y % 100 # 0) \/ y % 400 = 0

\* days of the months before month m0 (0-based) of year y
DaysBeforeMonth(y, m0) ==
  LET len == <<31, IF IsLeap(y) THEN 29 ELSE 28, 31, 30, 31, 30,
               31, 31, 30, 31, 30, 31>>
      RECURSIVE Sum(_)
      Sum(k) == IF k = 0 THEN 0 ELSE len[k] + Sum(k - 1)
  IN  Sum(m0)

DaysBeforeYear(y) ==
  365 * y + ((y - 1) \div 4) - ((y - 1) \div 100) + ((y - 1) \div 400)

\* new Date(year, monthIndex, day) as a day count: a two-digit year is taken
\* as 1900 + year, and a month or day out of range rolls over
DateOf(year, monthIndex, day) ==
  LET y0 == IF year \in 0..99 THEN 1900 + year ELSE year
      y  == y0 + (monthIndex \div 12)
      m0 == monthIndex % 12
  IN  DaysBeforeYear(y) + DaysBeforeMonth(y, m0) + day

Today(t) == DateOf(t.year, t.month - 1, t.day)

\* /^(\d{2})\/(\d{2})\/(\d{4})$/ and /^(\d{2})-(\d{2})-(\d{4})$/
MatchesDayFirst(s, sep) ==
  /\ Len(s) = 10
  /\ s[3] = sep /\ s[6] = sep
  /\ AllDigits(SubSeq(s, 1, 2)) /\ AllDigits(SubSeq(s, 4, 5))
  /\ AllDigits(SubSeq(s, 7, 10))

\* /^(\d{4})-(\d{2})-(\d{2})$/
MatchesYearFirst(s) ==
  /\ Len(s) = 10
  /\ s[5] = "-" /\ s[8] = "-"
  /\ AllDigits(SubSeq(s, 1, 4)) /\ AllDigits(SubSeq(s, 6, 7))
  /\ AllDigits(SubSeq(s, 9, 10))

\* the [day, month, year] the first matching pattern extracts, if any
ParseDate(s) ==
  IF MatchesDayFirst(s, "/") \/ MatchesDayFirst(s, "-")
  THEN Some([day   |-> Number(SubSeq(s, 1, 2)),
             month |-> Number(SubSeq(s, 4, 5)),
             year  |-> Number(SubSeq(s, 7, 10))])
  ELSE IF MatchesYearFirst(s)
  THEN Some([day   |-> Number(SubSeq(s, 9, 10)),
             month |-> Number(SubSeq(s, 6, 7)),
             year  |-> Number(SubSeq(s, 1, 4))])
  ELSE Absent

AgeInRangeBug(p, t) ==
  LET age == t.year - p.year
  IN  age >= 15 /\ age <= 30 /\ DateOf(p.year, p.month - 1, p.day) <= Today(t)

\* age >= 15 && age <= 40 && date <= now
AgeInRange(p, t) ==
  LET age == t.year - p.year
  IN  age >= 15 /\ age <= 40 /\ DateOf(p.year, p.month - 1, p.day) <= Today(t)

validateDateOfBirthBug(dob, t) ==
  IF dob = <<>> THEN [valid |-> FALSE, date |-> Absent]
  ELSE LET m == ParseDate(dob)
           birthdayPassed ==
             DateOf(t.year, Get(m).month - 1, Get(m).day) <= Today(t)
           age == t.year - Get(m).year - (IF birthdayPassed THEN 0 ELSE 1)
       IN  IF IsPresent(m) /\ age >= 15 /\ age <= 40
              /\ DateOf(Get(m).year, Get(m).month - 1, Get(m).day) <= Today(t)
           THEN [valid |-> TRUE,
                 date  |-> Some(DateOf(Get(m).year, Get(m).month - 1, Get(m).day))]
           ELSE [valid |-> FALSE, date |-> Absent]

validateDateOfBirth(dob, t) ==
  IF dob = <<>> THEN [valid |-> FALSE, date |-> Absent]
  ELSE LET m == ParseDate(dob)
       IN  IF IsPresent(m) /\ AgeInRange(Get(m), t)
           THEN [valid |-> TRUE,
                 date  |-> Some(DateOf(Get(m).year, Get(m).month - 1, Get(m).day))]
           ELSE [valid |-> FALSE, date |-> Absent]

----------------------------------------------------------------------------
(* Structured-data validators *)

GENDERS ==
  { <<"m", "a", "l", "e">>, <<"f", "e", "m", "a", "l", "e">>, <<"m">>, <<"f">> }

validateStudentData(data, t) ==
  IF ~IsPresent(data)
  THEN [nameValid |-> FALSE, indexNumberValid |-> FALSE,
        dobValid |-> FALSE, genderValid |-> FALSE]
  ELSE LET d == Get(data)
       IN  [nameValid        |-> IsPresent(d.studentName)
                                 /\ Len(Get(d.studentName)) >= 3,
            indexNumberValid |-> validateIndexNumber(OrEmpty(d.indexNumber)),
            dobValid         |-> validateDateOfBirth(OrEmpty(d.dateOfBirth), t).valid,
            genderValid      |-> toLowerCase(OrEmpty(d.gender)) \in GENDERS]

REQUIRED_SUBJECTS ==
  { <<"e", "n", "g", "l", "i", "s", "h">>,
    <<"k", "i", "s", "w", "a", "h", "i", "l", "i">>,
    <<"m", "a", "t", "h", "e", "m", "a", "t", "i", "c", "s">>,
    <<"m", "a", "t", "h">> }

RECURSIVE SumPoints(_)
SumPoints(subjects) ==
  IF subjects = <<>> THEN 0
  ELSE OrZero(subjects[1].points) + SumPoints(Tail(subjects))

Abs(n) == IF n < 0 THEN -n ELSE n

PointsConsistentBug(subjects, totalPoints) ==
  IF Len(subjects) > 0 /\ IsPresent(totalPoints)
  THEN Abs(SumPoints(subjects) - Get(totalPoints)) < 1
  ELSE TRUE

\* Math.abs(calculatedPoints - (data.totalPoints || 0)) <= 1
PointsConsistent(subjects, totalPoints) ==
  IF Len(subjects) > 0 /\ IsPresent(totalPoints)
  THEN Abs(SumPoints(subjects) - Get(totalPoints)) <= 1
  ELSE TRUE

\* subjects.length >= 7 && hasRequiredSubjects
SubjectsComplete(subjects) ==
  /\ Len(subjects) >= 7
  /\ \E req \in REQUIRED_SUBJECTS : \E i \in 1..Len(subjects) :
       includes(toLowerCase(Get(subjects[i].name)), req)

\* s.name.toLowerCase() throws a TypeError on a subject without a name
validateAcademicData(data) ==
  IF ~IsPresent(data)
  THEN [threw |-> FALSE, gradesValid |-> FALSE, meanGradeValid |-> FALSE,
        pointsValid |-> FALSE, subjectsComplete |-> FALSE]
  ELSE LET d        == Get(data)
           subjects == OrEmpty(d.subjects)
       IN  IF \E i \in 1..Len(subjects) : ~IsPresent(subjects[i].name)
           THEN [threw |-> TRUE, gradesValid |-> FALSE, meanGradeValid |-> FALSE,
                 pointsValid |-> FALSE, subjectsComplete |-> FALSE]
           ELSE [threw            |-> FALSE,
                 gradesValid      |-> \A i \in 1..Len(subjects) :
                                        validateGrade(OrEmpty(subjects[i].grade)),
                 meanGradeValid   |-> validateGrade(OrEmpty(d.meanGrade)),
                 pointsValid      |-> PointsConsistent(subjects, d.totalPoints),
                 subjectsComplete |-> SubjectsComplete(subjects)]

----------------------------------------------------------------------------
(* Security-element validator *)

MARKERS ==
  << [field |-> "hasWatermark",     label |-> "watermark"],
     [field |-> "hasQRCode",        label |-> "QR code"],
     [field |-> "hasOfficialStamp", label |-> "official stamp"],
     [field |-> "hasSignature",     label |-> "signature"] >>

MarkerLabels == [i \in 1..Len(MARKERS) |-> MARKERS[i].label]

\* the labels, in marker order, of the markers whose truthiness is `want`
RECURSIVE Classify(_, _, _)
Classify(elements, want, i) ==
  IF i > Len(MARKERS) THEN <<>>
  ELSE (IF Truthy(elements[MARKERS[i].field]) = want
        THEN <<MARKERS[i].label>> ELSE <<>>)
       \o Classify(elements, want, i + 1)

\* present.length >= 2
HasSecurityFeaturesBug(present) == Len(present) > 2

HasSecurityFeaturesLax(present) == Len(present) >= 1

HasSecurityFeatures(present) == Len(present) >= 2

validateVerificationElements(elements) ==
  IF ~IsPresent(elements)
  THEN [hasSecurityFeatures |-> FALSE,
        missingElements     |-> MarkerLabels,
        presentElements     |-> <<>>]
  ELSE LET present == Classify(Get(elements), TRUE, 1)
           missing == Classify(Get(elements), FALSE, 1)
       IN  [hasSecurityFeatures |-> HasSecurityFeatures(present),
            missingElements     |-> missing,
            presentElements     |-> present]

----------------------------------------------------------------------------
(* Document validation aggregator: validateOCRResult *)

Msg(text) == [text |-> text, list |-> <<>>]

\* a message that ends with missingElements.join(', ')
MsgWith(text, list) == [text |-> text, list |-> list]

NoFinding == [errors |-> <<>>, warnings |-> <<>>, deduction |-> 0]

Error(m, n) == [errors |-> <<m>>, warnings |-> <<>>, deduction |-> n]

Warning(m, n) == [errors |-> <<>>, warnings |-> <<m>>, deduction |-> n]

\* a mutant of ConfidenceCheck: the unreadable band deducts less than the
\* band above it
ConfidenceCheckBug(confidence) ==
  IF confidence < 50
  THEN Error(Msg("OCR confidence too low - document may be unreadable"), 10)
  ELSE IF confidence < 70
  THEN Warning(Msg("OCR confidence below optimal level"), 15)
  ELSE NoFinding

ConfidenceCheck(confidence) ==
  IF confidence < 50
  THEN Error(Msg("OCR confidence too low - document may be unreadable"), 30)
  ELSE IF confidence < 70
  THEN Warning(Msg("OCR confidence below optimal level"), 15)
  ELSE NoFinding

\* a mutant of NameCheck: the gender is checked along with the name
NameCheckGendered(studentVal) ==
  IF ~studentVal.nameValid \/ ~studentVal.genderValid
  THEN Error(Msg("Student name not found or invalid"), 15)
  ELSE NoFinding

NameCheck(studentVal) ==
  IF ~studentVal.nameValid
  THEN Error(Msg("Student name not found or invalid"), 15)
  ELSE NoFinding

\* a mutant of IndexNumberCheck: the defect is reported as a warning
IndexNumberCheckBug(studentVal) ==
  IF ~studentVal.indexNumberValid
  THEN Warning(Msg("Index number format invalid or missing"), 10)
  ELSE NoFinding

IndexNumberCheck(studentVal) ==
  IF ~studentVal.indexNumberValid
  THEN Error(Msg("Index number format invalid or missing"), 10)
  ELSE NoFinding

DobCheck(studentVal) ==
  IF ~studentVal.dobValid
  THEN Warning(Msg("Date of birth not detected or invalid format"), 5)
  ELSE NoFinding

MeanGradeCheckBug(academicVal) ==
  IF ~academicVal.meanGradeValid
  THEN Warning(Msg("Mean grade not detected or invalid"), 15)
  ELSE NoFinding

MeanGradeCheck(academicVal) ==
  IF ~academicVal.meanGradeValid
  THEN Warning(Msg("Mean grade not detected or invalid"), 10)
  ELSE NoFinding

SubjectsCheck(academicVal) ==
  IF ~academicVal.subjectsComplete
  THEN Warning(Msg("Subject list may be incomplete (expected min. 7 subjects)"), 5)
  ELSE NoFinding

PointsCheck(academicVal) ==
  IF ~academicVal.pointsValid
  THEN Warning(Msg("Points calculation inconsistency detected"), 5)
  ELSE NoFinding

SecurityCheck(verifyVal) ==
  IF ~verifyVal.hasSecurityFeatures
  THEN Error(MsgWith("Missing security features", verifyVal.missingElements), 20)
  ELSE IF Len(verifyVal.missingElements) > 2
  THEN Warning(MsgWith("Some security features not detected",
                       verifyVal.missingElements), 10)
  ELSE NoFinding

RECURSIVE AllErrors(_)
AllErrors(findings) ==
  IF findings = <<>> THEN <<>>
  ELSE findings[1].errors \o AllErrors(Tail(findings))

RECURSIVE AllWarnings(_)
AllWarnings(findings) ==
  IF findings = <<>> THEN <<>>
  ELSE findings[1].warnings \o AllWarnings(Tail(findings))

RECURSIVE TotalDeduction(_)
TotalDeduction(findings) ==
  IF findings = <<>> THEN 0
  ELSE findings[1].deduction + TotalDeduction(Tail(findings))

Max(a, b) == IF a >= b THEN a ELSE b

Min(a, b) == IF a <= b THEN a ELSE b

\* a mutant of FinalScore: a deduction is added instead of subtracted
FinalScoreBug(deduction) == Max(0, 100 + deduction)

\* let score = 100; score -= ...; Math.max(0, score)
FinalScore(deduction) == Max(0, 100 - deduction)

\* a mutant of NoOCRData: the absent document keeps the initial score
NoOCRDataBug ==
  [threw |-> FALSE, isValid |-> FALSE,
   errors |-> <<Msg("No OCR data available")>>, warnings |-> <<>>,
   score |-> FinalScore(0)]

NoOCRData ==
  [threw |-> FALSE, isValid |-> FALSE,
   errors |-> <<Msg("No OCR data available")>>, warnings |-> <<>>,
   score |-> 0]

\* the outcome of a call that ends in an uncaught TypeError
ValidationThrew ==
  [threw |-> TRUE, isValid |-> FALSE, errors |-> <<>>, warnings |-> <<>>,
   score |-> 0]

validateOCRResult(result, t) ==
  IF ~IsPresent(result) THEN NoOCRData
  ELSE LET r           == Get(result)
           studentVal  == validateStudentData(r.structured, t)
           academicVal == validateAcademicData(r.structured)
           verifyVal   == validateVerificationElements(r.verificationElements)
           findings    == << ConfidenceCheck(r.confidence),
                             NameCheck(studentVal),
                             IndexNumberCheck(studentVal),
                             DobCheck(studentVal),
                             MeanGradeCheck(academicVal),
                             SubjectsCheck(academicVal),
                             PointsCheck(academicVal),
                             SecurityCheck(verifyVal) >>
       IN  IF academicVal.threw THEN ValidationThrew
           ELSE [threw    |-> FALSE,
                 isValid  |-> Len(AllErrors(findings)) = 0,
                 errors   |-> AllErrors(findings),
                 warnings |-> AllWarnings(findings),
                 score    |-> FinalScore(TotalDeduction(findings))]

----------------------------------------------------------------------------
(* Risk scoring engine: calculateOverallRiskScore *)

\* a mutant of FactorStatus: the thresholds are inclusive
FactorStatusBug(risk) ==
  IF risk <= 20 THEN "good" ELSE IF risk <= 40 THEN "warning" ELSE "bad"

\* risk < 20 ? 'good' : risk < 40 ? 'warning' : 'bad'
FactorStatus(risk) ==
  IF risk < 20 THEN "good" ELSE IF risk < 40 THEN "warning" ELSE "bad"

Factor(name, risk) == [name |-> name, impact |-> risk, status |-> FactorStatus(risk)]

\* the contribution of one input: its factors and its weighted risk, the
\* weight in hundredths
Contribution(name, risk, weight) ==
  [factors |-> <<Factor(name, risk)>>, risk |-> risk * weight]

NoContribution == [factors |-> <<>>, risk |-> 0]

\* a mutant of NoDocumentContribution: the flat risk is recorded as its impact
NoDocumentContributionBug ==
  [factors |-> <<[name |-> "OCR Data", impact |-> 50, status |-> "bad"]>>,
   risk    |-> 50 * 100]

NoDocumentContributionLow ==
  [factors |-> <<[name |-> "OCR Data", impact |-> 100, status |-> "bad"]>>,
   risk    |-> 20 * 100]

\* totalRisk += 50; factors.push({ name: 'OCR Data', impact: 100, status: 'bad' })
NoDocumentContribution ==
  [factors |-> <<[name |-> "OCR Data", impact |-> 100, status |-> "bad"]>>,
   risk    |-> 50 * 100]

\* a mutant of OptionalContribution: the score is tested for truthiness, so a
\* supplied score of 0 is taken as not supplied
OptionalContributionBug(name, score, weight) ==
  IF IsPresent(score) /\ Get(score) # 0
  THEN Contribution(name, 100 - Get(score), weight)
  ELSE NoContribution

OptionalContributionInverted(name, score, weight) ==
  IF IsPresent(score)
  THEN Contribution(name, Get(score), weight)
  ELSE NoContribution

\* if (score !== undefined) { risk = 100 - score; ... totalRisk += risk * weight }
OptionalContribution(name, score, weight) ==
  IF IsPresent(score)
  THEN Contribution(name, 100 - Get(score), weight)
  ELSE NoContribution

\* a mutant of RoundRisk: Math.floor instead of Math.round
RoundRiskBug(total) == Min(100, Max(0, total \div 100))

\* Math.min(100, Math.max(0, Math.round(totalRisk))), totalRisk in hundredths
RoundRisk(total) == Min(100, Max(0, (total + 50) \div 100))

\* a mutant of VerdictOf: the thresholds are exclusive
VerdictOfBug(riskScore) ==
  IF riskScore < 25 THEN "verified"
  ELSE IF riskScore < 55 THEN "flagged"
  ELSE "rejected"

VerdictOf(riskScore) ==
  IF riskScore <= 25 THEN "verified"
  ELSE IF riskScore <= 55 THEN "flagged"
  ELSE "rejected"

RiskThrew == [threw |-> TRUE, riskScore |-> 0, verdict |-> "", factors |-> <<>>]

calculateOverallRiskScore(ocrResult, biometricScore, livenessScore, t) ==
  LET validation == validateOCRResult(ocrResult, t)
      document ==
        IF IsPresent(ocrResult)
        THEN LET r         == Get(ocrResult)
                 verifyVal == validateVerificationElements(r.verificationElements)
             IN  << Contribution("OCR Confidence", 100 - r.confidence, 30),
                    Contribution("Security Elements",
                                 Len(verifyVal.missingElements) * 15, 25),
                    Contribution("Data Completeness", 100 - validation.score, 20) >>
        ELSE << NoDocumentContribution >>
      parts == document
               \o << OptionalContribution("Biometric Match", biometricScore, 15),
                     OptionalContribution("Liveness Check", livenessScore, 10) >>
      RECURSIVE Factors(_)
      Factors(ps) == IF ps = <<>> THEN <<>> ELSE ps[1].factors \o Factors(Tail(ps))
      RECURSIVE TotalRisk(_)
      TotalRisk(ps) == IF ps = <<>> THEN 0 ELSE ps[1].risk + TotalRisk(Tail(ps))
      riskScore == RoundRisk(TotalRisk(parts))
  IN  IF validation.threw THEN RiskThrew
      ELSE [threw     |-> FALSE,
            riskScore |-> riskScore,
            verdict   |-> VerdictOf(riskScore),
            factors   |-> Factors(parts)]

----------------------------------------------------------------------------
(* Inputs *)

\* the clock advances at most MaxTicks days from StartDate
MaxTicks == 1

\* optional scores are drawn from a grid of ScoreLevels steps over 0..100
ScoreLevels == 2

StartDate == [year |-> 2026, month |-> 12, day |-> 31]

NextDay(t) ==
  IF t.day < DaysBeforeMonth(t.year, t.month) - DaysBeforeMonth(t.year, t.month - 1)
  THEN [t EXCEPT !.day = t.day + 1]
  ELSE IF t.month < 12
  THEN [year |-> t.year, month |-> t.month + 1, day |-> 1]
  ELSE [year |-> t.year + 1, month |-> 1, day |-> 1]

NameAnn == Some(<<"A", "n", "n">>)
NameAl == Some(<<"A", "l">>)
NameEmpty == Some(<<>>)

IndexStandard == Some(<<"1", "2", "3", "4", "5", "6", "7", "8", "/", "2", "0", "2", "3">>)
IndexCodeLower == Some(<<" ", "a", "b", "1", "2", "3", "4", "5", "6", " ">>)
IndexAlternative == Some(<<"0", "1", "/", "2", "3", "4", "/", "2", "0", "2", "3">>)
IndexShort == Some(<<"1", "2", "3", "4", "5", "6", "7", "/", "2", "0", "2", "3">>)

\* aged 15 on StartDate
DobFifteen == Some(<<"3", "1", "/", "1", "2", "/", "2", "0", "1", "1">>)
\* aged 40 on StartDate and 41 the day after
DobForty == Some(<<"1", "9", "8", "6", "-", "0", "6", "-", "1", "5">>)
\* aged 14 on StartDate and 15 the day after
DobFourteen == Some(<<"0", "1", "-", "0", "1", "-", "2", "0", "1", "2">>)
DobMalformed == Some(<<"1", "/", "1", "/", "2", "0", "0", "0">>)

GenderMale == Some(<<"M", "a", "l", "e">>)
GenderOther == Some(<<"x">>)

GradeBPlus == Some(<<"B", "+">>)
GradeLowerPadded == Some(<<"b", "+", " ">>)
GradeF == Some(<<"F">>)

Subject(name, points) ==
  [name |-> Some(name), grade |-> Some(Str1("B")), points |-> points]

SubjectsNoRequired ==
  << Subject(<<"B", "i", "o">>, Some(7)), Subject(<<"P", "h", "y">>, Some(7)),
     Subject(<<"C", "h", "e">>, Some(7)), Subject(<<"H", "i", "s">>, Some(7)),
     Subject(<<"G", "e", "o">>, Some(7)), Subject(<<"C", "R", "E">>, Some(7)),
     Subject(<<"A", "r", "t">>, Some(7)) >>

SubjectsSeven ==
  << Subject(<<"M", "a", "t", "h", "s">>, Some(7)) >> \o SubSeq(SubjectsNoRequired, 1, 6)

SubjectsSix == SubSeq(SubjectsSeven, 1, 6)

SubjectsUnscored ==
  << Subject(<<"M", "a", "t", "h", "s">>, Absent) >> \o SubSeq(SubjectsNoRequired, 1, 6)

Structured(name, index, dob, gender, mean, subjects, total) ==
  Some([studentName |-> name, indexNumber |-> index, dateOfBirth |-> dob,
        gender |-> gender, meanGrade |-> mean, subjects |-> subjects,
        totalPoints |-> total])

\* every combination of a sound and a defective value of each validated field
StructuredGrid ==
  { Structured(n, i, d, GenderMale, g, st[1], st[2]) :
      n \in {NameAnn, Absent}, i \in {IndexStandard, Absent},
      d \in {DobFifteen, Absent}, g \in {GradeBPlus, Absent},
      st \in { <<Some(SubjectsSeven), Some(49)>>, <<Some(SubjectsSix), Some(42)>>,
               <<Some(SubjectsSeven), Some(51)>>, <<Some(SubjectsSix), Some(51)>> } }

StructuredPerfect ==
  Structured(NameAnn, IndexStandard, DobFifteen, GenderMale, GradeBPlus,
             Some(SubjectsSeven), Some(49))

\* the sound record with one field replaced by another form of it
StructuredVariants ==
  { Structured(n, IndexStandard, DobFifteen, GenderMale, GradeBPlus,
               Some(SubjectsSeven), Some(49)) : n \in {NameAl, NameEmpty} }
  \cup
  { Structured(NameAnn, i, DobFifteen, GenderMale, GradeBPlus,
               Some(SubjectsSeven), Some(49)) :
      i \in {IndexCodeLower, IndexAlternative, IndexShort} }
  \cup
  { Structured(NameAnn, IndexStandard, d, GenderMale, GradeBPlus,
               Some(SubjectsSeven), Some(49)) :
      d \in {DobForty, DobFourteen, DobMalformed} }
  \cup
  { Structured(NameAnn, IndexStandard, DobFifteen, g, GradeBPlus,
               Some(SubjectsSeven), Some(49)) : g \in {GenderOther, Absent} }
  \cup
  { Structured(NameAnn, IndexStandard, DobFifteen, GenderMale, g,
               Some(SubjectsSeven), Some(49)) : g \in {GradeLowerPadded, GradeF} }
  \cup
  { Structured(NameAnn, IndexStandard, DobFifteen, GenderMale, GradeBPlus,
               st[1], st[2]) :
      st \in { <<Some(SubjectsNoRequired), Some(49)>>, <<Some(<<>>), Some(51)>>,
               <<Absent, Some(51)>>, <<Some(SubjectsSeven), Absent>>,
               <<Some(SubjectsSeven), Some(50)>>, <<Some(SubjectsSeven), Some(0)>>,
               <<Some(SubjectsUnscored), Some(49)>>,
               <<Some(SubjectsUnscored), Some(42)>> } }

Elements(w, q, s, g) ==
  Some([hasWatermark |-> w, hasQRCode |-> q, hasOfficialStamp |-> s,
        hasSignature |-> g])

\* null, an object with none of the four fields, and every combination of
\* the four booleans
ElementsInputs ==
  {Absent, Elements(Absent, Absent, Absent, Absent)}
  \cup { Elements(Some(w), Some(q), Some(s), Some(g)) :
           w \in BOOLEAN, q \in BOOLEAN, s \in BOOLEAN, g \in BOOLEAN }

Document(confidence, structured, elements) ==
  Some([confidence |-> confidence, structured |-> structured,
        verificationElements |-> elements])

\* the confidences around the thresholds of validateOCRResult
ValidationConfidences == {49, 50, 69, 70}

\* the confidences around the thresholds of the factor status, and the ends
RiskConfidences == {0, 49, 50, 60, 61, 69, 70, 80, 81, 100}

\* documents that vary the structured data in full
RichDocuments ==
  { Document(c, s, e) :
      c \in ValidationConfidences,
      s \in {Absent} \cup StructuredGrid \cup StructuredVariants,
      e \in ElementsInputs }

\* documents that vary the confidence and the security markers in full
CoreDocuments ==
  { Document(c, s, e) :
      c \in RiskConfidences, s \in {Absent, StructuredPerfect},
      e \in ElementsInputs }

Documents == {Absent} \cup RichDocuments \cup CoreDocuments

\* the scores around the thresholds of the factor status, and a grid
Scores ==
  {60, 61, 80, 81} \cup { (k * 100) \div ScoreLevels : k \in 0..ScoreLevels }

OptionalScores == {Absent} \cup { Some(x) : x \in Scores }

----------------------------------------------------------------------------
(* The engine as a state machine: a caller picks arguments, the call       *)
(* returns, and the clock advances between calls.                          *)

NoCall ==
  [fn |-> "", ocrResult |-> Absent, biometricScore |-> Absent,
   livenessScore |-> Absent, elements |-> Absent]

\* the locals of the latest activation of handleScan
NoFrame ==
  [uploadedFile |-> <<>>, previewUrl |-> <<>>, biometricCapture |-> <<>>,
   biometricVerifyResult |-> <<>>, result |-> <<>>]

\* the screen as mounted: nothing uploaded, nothing captured, no scan running
ScanInit ==
  /\ uploadedFile = <<>>
  /\ previewUrl = <<>>
  /\ biometricCapture = <<>>
  /\ isScanning = FALSE
  /\ showResults = FALSE
  /\ isExtracting = FALSE
  /\ useOCRResult = <<>>
  /\ isBiometricVerifying = FALSE
  /\ biometricVerifyResult = <<>>
  /\ scanPc = "idle"
  /\ frame = NoFrame
  /\ events = <<>>
  /\ dashboard = [showResults |-> FALSE, ocrResult |-> <<>>]
  /\ onScanCompleteArgs = <<>>
  /\ pendingInserts = {}
  /\ verifications = <<>>

Init ==
  /\ now = StartDate
  /\ ticks = 0
  /\ pc = "idle"
  /\ call = NoCall
  /\ ret = <<>>
  /\ ScanInit

Tick ==
  /\ pc = "idle"
  /\ ticks < MaxTicks
  /\ now' = NextDay(now)
  /\ ticks' = ticks + 1
  /\ UNCHANGED <<pc, call, ret, scanVars>>

CallValidateVerificationElements ==
  /\ pc = "idle"
  /\ \E e \in ElementsInputs :
       /\ call' = [NoCall EXCEPT !.fn = "validateVerificationElements",
                                 !.elements = e]
       /\ ret' = validateVerificationElements(e)
  /\ pc' = "returned"
  /\ UNCHANGED <<now, ticks, scanVars>>

CallValidateOCRResult ==
  /\ pc = "idle"
  /\ \E d \in Documents :
       /\ call' = [NoCall EXCEPT !.fn = "validateOCRResult", !.ocrResult = d]
       /\ ret' = validateOCRResult(d, now)
  /\ pc' = "returned"
  /\ UNCHANGED <<now, ticks, scanVars>>

CallCalculateOverallRiskScore ==
  /\ pc = "idle"
  /\ \E d \in Documents, b \in OptionalScores, l \in OptionalScores :
       /\ IsPresent(b) \/ IsPresent(l) => d \in {Absent} \cup CoreDocuments
       /\ call' = [NoCall EXCEPT !.fn = "calculateOverallRiskScore",
                                 !.ocrResult = d, !.biometricScore = b,
                                 !.livenessScore = l]
       /\ ret' = calculateOverallRiskScore(d, b, l, now)
  /\ pc' = "returned"
  /\ UNCHANGED <<now, ticks, scanVars>>

Return ==
  /\ pc = "returned"
  /\ pc' = "idle"
  /\ call' = NoCall
  /\ ret' = <<>>
  /\ UNCHANGED <<now, ticks, scanVars>>

Next ==
  \/ Tick
  \/ CallValidateVerificationElements
  \/ CallValidateOCRResult
  \/ CallCalculateOverallRiskScore
  \/ Return

Spec == Init /\ [][Next]_vars

----------------------------------------------------------------------------
(* Properties *)

Returned(fn) == pc = "returned" /\ call.fn = fn

\* the number of the four markers that an input does not report as present
MissingCount(elements) ==
  IF ~IsPresent(elements) THEN 4
  ELSE Cardinality({ f \in {"hasWatermark", "hasQRCode", "hasOfficialStamp",
                            "hasSignature"} : ~Truthy(Get(elements)[f]) })

\* round half up, then clamp to 0..100, of a sum kept in hundredths
RoundedAndClamped(total) ==
  LET rounded == CHOOSE n \in -200..200 : 100 * n - 50 <= total /\ total < 100 * n + 50
  IN  IF rounded < 0 THEN 0 ELSE IF rounded > 100 THEN 100 ELSE rounded

WeightedRisk(d, vscore, b, l) ==
    30 * (100 - d.confidence)
  + 25 * (15 * MissingCount(d.verificationElements))
  + 20 * (100 - vscore)
  + (IF IsPresent(b) THEN 15 * (100 - Get(b)) ELSE 0)
  + (IF IsPresent(l) THEN 10 * (100 - Get(l)) ELSE 0)

\* C1: for a present document, riskScore is the rounded and clamped weighted
\* sum 0.30*(100 - confidence*100) + 0.25*(15*missing markers)
\* + 0.20*(100 - validation score) + 0.15*(100 - biometricScore) if supplied
\* + 0.10*(100 - livenessScore) if supplied; a score that is not supplied adds
\* nothing and the other weights stay as they are; a perfect document with
\* both scores at 100 gets riskScore 0.
C1_RiskScoreIsWeightedSum ==
  Returned("calculateOverallRiskScore") /\ IsPresent(call.ocrResult) =>
    LET d      == Get(call.ocrResult)
        vscore == validateOCRResult(call.ocrResult, now).score
        b      == call.biometricScore
        l      == call.livenessScore
    IN  /\ ~ret.threw
        /\ ret.riskScore = RoundedAndClamped(WeightedRisk(d, vscore, b, l))
        /\ (  d.confidence = 100 /\ MissingCount(d.verificationElements) = 0
              /\ vscore = 100 /\ b = Some(100) /\ l = Some(100)
            => ret.riskScore = 0 )

\* a perfect document with both scores at 100 was scored 0
C1_Witness ==
  /\ Returned("calculateOverallRiskScore")
  /\ IsPresent(call.ocrResult)
  /\ Get(call.ocrResult).confidence = 100
  /\ MissingCount(Get(call.ocrResult).verificationElements) = 0
  /\ validateOCRResult(call.ocrResult, now).score = 100
  /\ call.biometricScore = Some(100)
  /\ call.livenessScore = Some(100)
  /\ ret.riskScore = 0

\* C2: the verdict is a function of riskScore alone: verified iff
\* riskScore <= 25, flagged iff 26 <= riskScore <= 55, rejected iff
\* riskScore > 55; no other verdict (such as pending) is returned.
C2_VerdictFollowsRiskScore ==
  Returned("calculateOverallRiskScore") =>
    /\ ret.verdict \in {"verified", "flagged", "rejected"}
    /\ ret.verdict = "verified" <=> ret.riskScore <= 25
    /\ ret.verdict = "flagged" <=> (26 <= ret.riskScore /\ ret.riskScore <= 55)
    /\ ret.verdict = "rejected" <=> ret.riskScore > 55

\* a riskScore of exactly 25 was returned as verified
C2_Witness ==
  /\ Returned("calculateOverallRiskScore")
  /\ ret.riskScore = 25
  /\ ret.verdict = "verified"

\* C3: the riskScore of calculateOverallRiskScore and the score of
\* validateOCRResult are integers in 0..100, for an absent or a present
\* document and any optional scores.
C3_ScoresInRange ==
  /\ Returned("calculateOverallRiskScore") => ret.riskScore \in 0..100
  /\ Returned("validateOCRResult") => ret.score \in 0..100

\* the validation score of a clean document reached the top of the range
C3_Witness ==
  /\ Returned("validateOCRResult")
  /\ IsPresent(call.ocrResult)
  /\ ret.score = 100

\* C4: with no document and neither optional score, riskScore is exactly 50,
\* the verdict is flagged and the only factor is OCR Data with impact 100 and
\* status bad.
C4_NoInputsGivesFifty ==
  /\ Returned("calculateOverallRiskScore")
  /\ ~IsPresent(call.ocrResult)
  /\ ~IsPresent(call.biometricScore)
  /\ ~IsPresent(call.livenessScore)
  => /\ ret.riskScore = 50
     /\ ret.verdict = "flagged"
     /\ ret.factors = <<[name |-> "OCR Data", impact |-> 100, status |-> "bad"]>>

\* the call with no document and no optional score returned
C4_Witness ==
  /\ Returned("calculateOverallRiskScore")
  /\ ~IsPresent(call.ocrResult)
  /\ ~IsPresent(call.biometricScore)
  /\ ~IsPresent(call.livenessScore)
  /\ ret.riskScore = 50

HasText(msgs, text) == \E i \in 1..Len(msgs) : msgs[i].text = text

Count(flags) == Cardinality({ i \in 1..Len(flags) : flags[i] })

\* C5: for a present document the score is max(0, 100 - the sum of the
\* deductions that apply), each defect deducting its own amount whatever the
\* others do (confidence < 0.5: 30, else < 0.7: 15; name 15; index number 10;
\* date of birth 5; mean grade 10; subjects 5; points 5; security 20); the
\* confidence < 0.5, name, index-number and security defects are errors, the
\* others warnings; isValid holds iff there is no error.
C5_DeductionsAreAdditive ==
  Returned("validateOCRResult") /\ IsPresent(call.ocrResult) =>
    LET d    == Get(call.ocrResult)
        sv   == validateStudentData(d.structured, now)
        av   == validateAcademicData(d.structured)
        vv   == validateVerificationElements(d.verificationElements)
        low  == d.confidence < 50
        mid  == d.confidence >= 50 /\ d.confidence < 70
        sum  ==   (IF low THEN 30 ELSE 0) + (IF mid THEN 15 ELSE 0)
                + (IF ~sv.nameValid THEN 15 ELSE 0)
                + (IF ~sv.indexNumberValid THEN 10 ELSE 0)
                + (IF ~sv.dobValid THEN 5 ELSE 0)
                + (IF ~av.meanGradeValid THEN 10 ELSE 0)
                + (IF ~av.subjectsComplete THEN 5 ELSE 0)
                + (IF ~av.pointsValid THEN 5 ELSE 0)
                + (IF ~vv.hasSecurityFeatures THEN 20 ELSE 0)
    IN  /\ ret.score = (IF sum > 100 THEN 0 ELSE 100 - sum)
        /\ Len(ret.errors) = Count(<<low, ~sv.nameValid, ~sv.indexNumberValid,
                                     ~vv.hasSecurityFeatures>>)
        /\ Len(ret.warnings) = Count(<<mid, ~sv.dobValid, ~av.meanGradeValid,
                                       ~av.subjectsComplete, ~av.pointsValid>>)
        /\ HasText(ret.errors, "OCR confidence too low - document may be unreadable")
             <=> low
        /\ HasText(ret.errors, "Student name not found or invalid") <=> ~sv.nameValid
        /\ HasText(ret.errors, "Index number format invalid or missing")
             <=> ~sv.indexNumberValid
        /\ HasText(ret.errors, "Missing security features")
             <=> ~vv.hasSecurityFeatures
        /\ HasText(ret.warnings, "OCR confidence below optimal level") <=> mid
        /\ HasText(ret.warnings, "Date of birth not detected or invalid format")
             <=> ~sv.dobValid
        /\ HasText(ret.warnings, "Mean grade not detected or invalid")
             <=> ~av.meanGradeValid
        /\ HasText(ret.warnings,
                   "Subject list may be incomplete (expected min. 7 subjects)")
             <=> ~av.subjectsComplete
        /\ HasText(ret.warnings, "Points calculation inconsistency detected")
             <=> ~av.pointsValid
        /\ ret.isValid <=> ret.errors = <<>>

\* a document with structured data and every defect at once: four errors,
\* four warnings, score 0
C5_Witness ==
  /\ Returned("validateOCRResult")
  /\ IsPresent(call.ocrResult)
  /\ IsPresent(Get(call.ocrResult).structured)
  /\ Len(ret.errors) = 4
  /\ Len(ret.warnings) = 4
  /\ ret.score = 0

\* C6: for an absent document validateOCRResult returns isValid false,
\* score 0, no warning and the single error that no data is available.
C6_AbsentDocumentIsInvalid ==
  Returned("validateOCRResult") /\ ~IsPresent(call.ocrResult) =>
    /\ ~ret.isValid
    /\ ret.score = 0
    /\ ret.warnings = <<>>
    /\ ret.errors = <<[text |-> "No OCR data available", list |-> <<>>]>>

\* validateOCRResult returned for an absent document
C6_Witness ==
  /\ Returned("validateOCRResult")
  /\ ~IsPresent(call.ocrResult)
  /\ ~ret.isValid

\* the documents that differ from d by one more defect: a lower confidence,
\* an invalid student name, or one present marker switched to missing
LowerConfidence(d) ==
  { [d EXCEPT !.confidence = c] :
      c \in { x \in {0, 30} \cup ValidationConfidences \cup RiskConfidences :
                x < d.confidence } }

InvalidName(d) ==
  IF IsPresent(d.structured)
  THEN { [d EXCEPT !.structured = Some([Get(d.structured) EXCEPT !.studentName = n])] :
           n \in {Absent, NameEmpty, NameAl} }
  ELSE {}

MarkerRemoved(d) ==
  IF IsPresent(d.verificationElements)
  THEN LET e == Get(d.verificationElements)
       IN  { [d EXCEPT !.verificationElements = Some([e EXCEPT ![f] = v])] :
               f \in { g \in {"hasWatermark", "hasQRCode", "hasOfficialStamp",
                              "hasSignature"} : Truthy(e[g]) },
               v \in {Some(FALSE), Absent} }
  ELSE {}

OneMoreDefect(d) == LowerConfidence(d) \cup InvalidName(d) \cup MarkerRemoved(d)

\* C7: introducing one more defect into a present document (a lower
\* confidence, an invalid student name, a present marker made missing) never
\* raises the validateOCRResult score, and the score is never below 0.
C7_ScoreMonotoneInDefects ==
  Returned("validateOCRResult") /\ IsPresent(call.ocrResult) =>
    /\ ret.score >= 0
    /\ \A d2 \in OneMoreDefect(Get(call.ocrResult)) :
         LET after == validateOCRResult(Some(d2), now).score
         IN  after <= ret.score /\ after >= 0

\* each of the three kinds of defect strictly lowers the score of one document
C7_Witness ==
  /\ Returned("validateOCRResult")
  /\ IsPresent(call.ocrResult)
  /\ \E d2 \in LowerConfidence(Get(call.ocrResult)) :
       validateOCRResult(Some(d2), now).score < ret.score
  /\ \E d2 \in InvalidName(Get(call.ocrResult)) :
       validateOCRResult(Some(d2), now).score < ret.score
  /\ \E d2 \in MarkerRemoved(Get(call.ocrResult)) :
       validateOCRResult(Some(d2), now).score < ret.score

FactorNames(factors) == [i \in 1..Len(factors) |-> factors[i].name]

\* C8: the factors are, in order, OCR Confidence, Security Elements, Data
\* Completeness (or the single OCR Data when the document is absent), then
\* Biometric Match iff biometricScore was supplied, then Liveness Check iff
\* livenessScore was supplied.
C8_FactorOrder ==
  Returned("calculateOverallRiskScore") =>
    FactorNames(ret.factors) =
         (IF IsPresent(call.ocrResult)
          THEN <<"OCR Confidence", "Security Elements", "Data Completeness">>
          ELSE <<"OCR Data">>)
      \o (IF IsPresent(call.biometricScore) THEN <<"Biometric Match">> ELSE <<>>)
      \o (IF IsPresent(call.livenessScore) THEN <<"Liveness Check">> ELSE <<>>)

\* a present document with both scores supplied, one of them 0, got all five
\* factors
C8_Witness ==
  /\ Returned("calculateOverallRiskScore")
  /\ IsPresent(call.ocrResult)
  /\ call.biometricScore = Some(0)
  /\ IsPresent(call.livenessScore)
  /\ Len(ret.factors) = 5
  /\ ret.factors[4].name = "Biometric Match"
  /\ ret.factors[5].name = "Liveness Check"

\* the raw risk of the input a factor is computed from
RawRisk(name) ==
  CASE name = "OCR Confidence"    -> 100 - Get(call.ocrResult).confidence
    [] name = "Security Elements" ->
         15 * MissingCount(Get(call.ocrResult).verificationElements)
    [] name = "Data Completeness" ->
         100 - validateOCRResult(call.ocrResult, now).score
    [] name = "Biometric Match"   -> 100 - Get(call.biometricScore)
    [] name = "Liveness Check"    -> 100 - Get(call.livenessScore)

\* C9: a factor computed from an input has the raw, unweighted risk as its
\* impact, and its status is good if impact < 20, warning if
\* 20 <= impact < 40, bad if impact >= 40; so Security Elements is good for
\* 0 or 1 missing markers, warning for 2, bad for 3 or 4.
C9_FactorStatusFromRawRisk ==
  Returned("calculateOverallRiskScore") =>
    \A i \in 1..Len(ret.factors) :
      LET f == ret.factors[i]
      IN  f.name # "OCR Data" =>
            /\ f.impact = RawRisk(f.name)
            /\ f.status = "good" <=> f.impact < 20
            /\ f.status = "warning" <=> (20 <= f.impact /\ f.impact < 40)
            /\ f.status = "bad" <=> f.impact >= 40
            /\ f.name = "Security Elements" =>
                 LET m == MissingCount(Get(call.ocrResult).verificationElements)
                 IN  /\ m \in {0, 1} => f.status = "good"
                     /\ m = 2 => f.status = "warning"
                     /\ m \in {3, 4} => f.status = "bad"

\* two missing markers gave a Security Elements warning, next to a factor
\* whose impact is exactly 20 and one whose impact is exactly 40
C9_Witness ==
  /\ Returned("calculateOverallRiskScore")
  /\ IsPresent(call.ocrResult)
  /\ MissingCount(Get(call.ocrResult).verificationElements) = 2
  /\ ret.factors[2].status = "warning"
  /\ \E i \in 1..Len(ret.factors) :
       ret.factors[i].impact = 20 /\ ret.factors[i].status = "warning"
  /\ \E i \in 1..Len(ret.factors) :
       ret.factors[i].impact = 40 /\ ret.factors[i].status = "bad"

\* the labels of the markers an input reports as present
PresentLabels(elements) ==
  IF ~IsPresent(elements) THEN {}
  ELSE LET e == Get(elements)
       IN  (IF Truthy(e.hasWatermark) THEN {"watermark"} ELSE {})
           \cup (IF Truthy(e.hasQRCode) THEN {"QR code"} ELSE {})
           \cup (IF Truthy(e.hasOfficialStamp) THEN {"official stamp"} ELSE {})
           \cup (IF Truthy(e.hasSignature) THEN {"signature"} ELSE {})

\* C10: presentElements and missingElements partition watermark, QR code,
\* official stamp, signature, each list in that order; hasSecurityFeatures
\* holds iff at least 2 markers are present; an absent input gives all four
\* missing, none present and hasSecurityFeatures false.
C10_MarkersPartitioned ==
  Returned("validateVerificationElements") =>
    LET order == <<"watermark", "QR code", "official stamp", "signature">>
        P == PresentLabels(call.elements)
        IsIn(l) == l \in P
        IsOut(l) == l \notin P
    IN  /\ ret.presentElements = SelectSeq(order, IsIn)
        /\ ret.missingElements = SelectSeq(order, IsOut)
        /\ Len(ret.presentElements) + Len(ret.missingElements) = 4
        /\ ret.hasSecurityFeatures <=> Cardinality(P) >= 2
        /\ ~IsPresent(call.elements) =>
             /\ ret.missingElements = order
             /\ ret.presentElements = <<>>
             /\ ~ret.hasSecurityFeatures

\* exactly two markers present, and not the first two, counted as sufficient
C10_Witness ==
  /\ Returned("validateVerificationElements")
  /\ ret.presentElements = <<"QR code", "signature">>
  /\ ret.missingElements = <<"watermark", "official stamp">>
  /\ ret.hasSecurityFeatures

----------------------------------------------------------------------------
(* Deepfake / liveness heuristic: analyzeDeepfakeRisk                       *)
(* (src/src/components/DeepfakeWarning.tsx)                                 *)

Indicator(name, severity, description) ==
  [name |-> name, detected |-> TRUE, severity |-> severity,
   description |-> description]

\* if (!livenessIndicators.marker)
MarkerFlagged(marker) == ~Truthy(marker)

MarkerIndicators(livenessIndicators) ==
  IF ~IsPresent(livenessIndicators) THEN <<>>
  ELSE LET li == Get(livenessIndicators)
       IN  (IF MarkerFlagged(li.naturalLighting)
            THEN << Indicator("Unnatural Lighting", "medium",
                      Msg("Lighting patterns inconsistent with natural environment")) >>
            ELSE <<>>)
        \o (IF MarkerFlagged(li.depthCues)
            THEN << Indicator("Missing Depth Cues", "high",
                      Msg("Face appears flat, lacking 3D depth information")) >>
            ELSE <<>>)
        \o (IF MarkerFlagged(li.skinTexture)
            THEN << Indicator("Artificial Skin Texture", "high",
                      Msg("Skin texture appears synthetic or overly smooth")) >>
            ELSE <<>>)
        \o (IF MarkerFlagged(li.eyeReflection)
            THEN << Indicator("Eye Reflection Anomaly", "medium",
                      Msg("Eye reflections missing or inconsistent")) >>
            ELSE <<>>)

\* a mutant of LivenessScoreIndicators: the second test is not an else-branch
LivenessScoreIndicatorsBug(livenessScore) ==
     (IF livenessScore < 60
      THEN << Indicator("Low Liveness Score", "high",
                Msg("Face does not appear to be from a live person")) >>
      ELSE <<>>)
  \o (IF livenessScore < 75
      THEN << Indicator("Moderate Liveness Concern", "medium",
                Msg("Some liveness checks did not pass confidently")) >>
      ELSE <<>>)

LivenessScoreIndicatorsMild(livenessScore) ==
  IF livenessScore < 75
  THEN << Indicator("Moderate Liveness Concern", "medium",
            Msg("Some liveness checks did not pass confidently")) >>
  ELSE <<>>

LivenessScoreIndicators(livenessScore) ==
  IF livenessScore < 60
  THEN << Indicator("Low Liveness Score", "high",
            Msg("Face does not appear to be from a live person")) >>
  ELSE IF livenessScore < 75
  THEN << Indicator("Moderate Liveness Concern", "medium",
            Msg("Some liveness checks did not pass confidently")) >>
  ELSE <<>>

WordDeepfake == <<"d", "e", "e", "p", "f", "a", "k", "e">>
WordSynthetic == <<"s", "y", "n", "t", "h", "e", "t", "i", "c">>
WordQuality == <<"q", "u", "a", "l", "i", "t", "y">>
WordBlur == <<"b", "l", "u", "r">>

\* the description of a concern indicator is the concern as given
Quoted(concern) == [text |-> "", list |-> concern]

\* a mutant of ConcernIndicator: the concern is searched as given, without
\* lowering its case
ConcernIndicatorBug(concern) ==
  IF includes(concern, WordDeepfake) \/ includes(concern, WordSynthetic)
  THEN << Indicator("AI Detection Alert", "high", Quoted(concern)) >>
  ELSE IF includes(concern, WordQuality) \/ includes(concern, WordBlur)
  THEN << Indicator("Image Quality Issue", "low", Quoted(concern)) >>
  ELSE <<>>

ConcernIndicator(concern) ==
  LET lowerConcern == toLowerCase(concern)
  IN  IF includes(lowerConcern, WordDeepfake) \/ includes(lowerConcern, WordSynthetic)
      THEN << Indicator("AI Detection Alert", "high", Quoted(concern)) >>
      ELSE IF includes(lowerConcern, WordQuality) \/ includes(lowerConcern, WordBlur)
      THEN << Indicator("Image Quality Issue", "low", Quoted(concern)) >>
      ELSE <<>>

\* concerns.forEach(...)
RECURSIVE ForEachConcern(_)
ForEachConcern(concerns) ==
  IF concerns = <<>> THEN <<>>
  ELSE ConcernIndicator(concerns[1]) \o ForEachConcern(Tail(concerns))

\* if (concerns && concerns.length > 0)
ConcernIndicators(concerns) ==
  IF IsPresent(concerns) /\ Len(Get(concerns)) > 0
  THEN ForEachConcern(Get(concerns))
  ELSE <<>>

\* indicators.filter(i => i.severity === severity).length
SeverityCount(indicators, severity) ==
  Cardinality({ i \in 1..Len(indicators) : indicators[i].severity = severity })

\* a mutant of DeepfakeConfidence: low-severity indicators count as well
DeepfakeConfidenceBug(indicators, livenessScore) ==
  Min(100, SeverityCount(indicators, "high") * 30
           + SeverityCount(indicators, "medium") * 15
           + SeverityCount(indicators, "low") * 5
           + (100 - livenessScore))

DeepfakeConfidence(indicators, livenessScore) ==
  Min(100, SeverityCount(indicators, "high") * 30
           + SeverityCount(indicators, "medium") * 15
           + (100 - livenessScore))

DeepfakeRecommendation(deepfakeConfidence) ==
  IF deepfakeConfidence > 70 THEN "reject"
  ELSE IF deepfakeConfidence > 40 THEN "review"
  ELSE "safe"

analyzeDeepfakeRisk(props) ==
  LET indicators == MarkerIndicators(props.livenessIndicators)
                    \o LivenessScoreIndicators(props.livenessScore)
                    \o ConcernIndicators(props.concerns)
      deepfakeConfidence == DeepfakeConfidence(indicators, props.livenessScore)
  IN  [isLikelyDeepfake |-> deepfakeConfidence > 50,
       confidence       |-> deepfakeConfidence,
       indicators       |-> indicators,
       recommendation   |-> DeepfakeRecommendation(deepfakeConfidence)]

----------------------------------------------------------------------------
(* Inputs of analyzeDeepfakeRisk *)

\* a concerns list holds at most MaxConcerns strings
MaxConcerns == 2

ConcernSamples ==
  { <<"D", "e", "e", "p", "F", "a", "k", "e">>,
    <<"s", "y", "n", "t", "h", "e", "t", "i", "c", " ", "b", "l", "u", "r">>,
    <<"Q", "u", "a", "l", "i", "t", "y">>,
    <<"b", "l", "u", "r">>,
    <<"g", "l", "a", "r", "e">> }

RECURSIVE SeqsUpTo(_, _)
SeqsUpTo(S, n) ==
  IF n = 0 THEN {<<>>}
  ELSE LET shorter == SeqsUpTo(S, n - 1)
       IN  shorter \cup { Append(q, x) : q \in { r \in shorter : Len(r) = n - 1 },
                                         x \in S }

ConcernsInputs ==
  {Absent} \cup { Some(q) : q \in SeqsUpTo(ConcernSamples, MaxConcerns) }

OptionalBooleans == {Absent, Some(TRUE), Some(FALSE)}

LivenessIndicators(l, d, s, e) ==
  Some([naturalLighting |-> l, depthCues |-> d, skinTexture |-> s,
        eyeReflection |-> e])

LivenessIndicatorsInputs ==
  {Absent}
  \cup { LivenessIndicators(l, d, s, e) :
           l \in OptionalBooleans, d \in OptionalBooleans,
           s \in OptionalBooleans, e \in OptionalBooleans }

\* the liveness scores around the thresholds of the indicators and of the
\* recommendation, and the ends
LivenessScores == {0, 30, 40, 50, 59, 60, 74, 75, 85, 100}

CallAnalyzeDeepfakeRisk ==
  /\ pc = "idle"
  /\ \E s \in LivenessScores, li \in LivenessIndicatorsInputs,
        c \in ConcernsInputs :
       LET props == [livenessScore |-> s, livenessIndicators |-> li,
                     concerns |-> c]
       IN  /\ call' = [fn |-> "analyzeDeepfakeRisk", props |-> props]
           /\ ret' = analyzeDeepfakeRisk(props)
  /\ pc' = "returned"
  /\ UNCHANGED <<now, ticks, scanVars>>

NextDeepfake ==
  \/ CallAnalyzeDeepfakeRisk
  \/ Return

SpecDeepfake == Init /\ [][NextDeepfake]_vars

----------------------------------------------------------------------------
(* Properties of analyzeDeepfakeRisk *)

HasIndicator(indicators, name, severity) ==
  \E i \in 1..Len(indicators) :
    indicators[i].name = name /\ indicators[i].severity = severity

NamedCount(indicators, name) ==
  Cardinality({ i \in 1..Len(indicators) : indicators[i].name = name })

ExplicitlyFalse(livenessIndicators, marker) ==
  /\ IsPresent(livenessIndicators)
  /\ Get(livenessIndicators)[marker] = Some(FALSE)

\* C13: a liveness-marker indicator is appended only for a marker that is
\* explicitly false (naturalLighting and eyeReflection medium, depthCues and
\* skinTexture high); a marker that is true or not provided gives none.
C13_IndicatorOnlyIfExplicitlyFalse ==
  Returned("analyzeDeepfakeRisk") =>
    LET li == call.props.livenessIndicators
        is == ret.indicators
    IN  /\ NamedCount(is, "Unnatural Lighting") > 0
             <=> ExplicitlyFalse(li, "naturalLighting")
        /\ NamedCount(is, "Missing Depth Cues") > 0
             <=> ExplicitlyFalse(li, "depthCues")
        /\ NamedCount(is, "Artificial Skin Texture") > 0
             <=> ExplicitlyFalse(li, "skinTexture")
        /\ NamedCount(is, "Eye Reflection Anomaly") > 0
             <=> ExplicitlyFalse(li, "eyeReflection")
        /\ NamedCount(is, "Unnatural Lighting") > 0
             => HasIndicator(is, "Unnatural Lighting", "medium")
        /\ NamedCount(is, "Missing Depth Cues") > 0
             => HasIndicator(is, "Missing Depth Cues", "high")
        /\ NamedCount(is, "Artificial Skin Texture") > 0
             => HasIndicator(is, "Artificial Skin Texture", "high")
        /\ NamedCount(is, "Eye Reflection Anomaly") > 0
             => HasIndicator(is, "Eye Reflection Anomaly", "medium")

SeverityList(indicators) == [i \in 1..Len(indicators) |-> indicators[i].severity]

IsHigh(x) == x = "high"

IsMedium(x) == x = "medium"

\* C14: confidence = min(100, 30*high + 15*medium + (100 - livenessScore)),
\* low-severity indicators adding nothing; isLikelyDeepfake iff
\* confidence > 50; reject iff confidence > 70, review iff
\* 40 < confidence <= 70, safe iff confidence <= 40.  Score 100 with all
\* markers true and no concerns: no indicator, confidence 0, safe.  Score 50
\* with all markers false and one concern naming a deepfake: at least 5
\* indicators, confidence 100, reject.
C14_DeepfakeConfidence ==
  Returned("analyzeDeepfakeRisk") =>
    LET p      == call.props
        high   == Len(SelectSeq(SeverityList(ret.indicators), IsHigh))
        medium == Len(SelectSeq(SeverityList(ret.indicators), IsMedium))
        sum    == 30 * high + 15 * medium + (100 - p.livenessScore)
        allTrue  == LivenessIndicators(Some(TRUE), Some(TRUE), Some(TRUE), Some(TRUE))
        allFalse == LivenessIndicators(Some(FALSE), Some(FALSE), Some(FALSE),
                                       Some(FALSE))
    IN  /\ ret.confidence = (IF sum > 100 THEN 100 ELSE sum)
        /\ ret.isLikelyDeepfake <=> ret.confidence > 50
        /\ ret.recommendation = "reject" <=> ret.confidence > 70
        /\ ret.recommendation = "review"
             <=> (40 < ret.confidence /\ ret.confidence <= 70)
        /\ ret.recommendation = "safe" <=> ret.confidence <= 40
        /\ (  p.livenessScore = 100 /\ p.livenessIndicators = allTrue
              /\ ~(IsPresent(p.concerns) /\ Get(p.concerns) # <<>>)
            => /\ ret.indicators = <<>>
               /\ ret.confidence = 0
               /\ ret.recommendation = "safe" )
        /\ (  p.livenessScore = 50 /\ p.livenessIndicators = allFalse
              /\ p.concerns = Some(<< <<"D", "e", "e", "p", "F", "a", "k", "e">> >>)
            => /\ Len(ret.indicators) >= 5
               /\ ret.confidence = 100
               /\ ret.recommendation = "reject" )

\* one low-severity indicator next to one medium one: the sum is 15 above
\* 100 - livenessScore, exactly on the review threshold
C14_Witness ==
  /\ Returned("analyzeDeepfakeRisk")
  /\ \E i \in 1..Len(ret.indicators) : ret.indicators[i].severity = "low"
  /\ \E i \in 1..Len(ret.indicators) : ret.indicators[i].severity = "medium"
  /\ call.props.livenessScore = 75
  /\ ret.confidence = 40
  /\ ret.recommendation = "safe"

\* C15: exactly one liveness-score indicator when livenessScore < 75 and none
\* otherwise: Low Liveness Score (high) iff livenessScore < 60, Moderate
\* Liveness Concern (medium) iff 60 <= livenessScore < 75, never both.
C15_OneLivenessScoreIndicator ==
  Returned("analyzeDeepfakeRisk") =>
    LET score    == call.props.livenessScore
        low      == NamedCount(ret.indicators, "Low Liveness Score")
        moderate == NamedCount(ret.indicators, "Moderate Liveness Concern")
    IN  /\ low + moderate = (IF score < 75 THEN 1 ELSE 0)
        /\ low = 1 <=> score < 60
        /\ moderate = 1 <=> (60 <= score /\ score < 75)
        /\ low = 1 => HasIndicator(ret.indicators, "Low Liveness Score", "high")
        /\ moderate = 1
             => HasIndicator(ret.indicators, "Moderate Liveness Concern", "medium")

\* a liveness score of exactly 60 gave the moderate indicator alone
C15_Witness ==
  /\ Returned("analyzeDeepfakeRisk")
  /\ call.props.livenessScore = 60
  /\ NamedCount(ret.indicators, "Moderate Liveness Concern") = 1
  /\ NamedCount(ret.indicators, "Low Liveness Score") = 0

\* word occurs in s when letter case is ignored
ContainsIgnoringCase(s, word) ==
  \E k \in 0..(Len(s) - Len(word)) :
    \A j \in 1..Len(word) : LowerOf(s[k + j]) = word[j]

IsConcernIndicator(x) == x.name \in {"AI Detection Alert", "Image Quality Issue"}

\* what the concerns are to give, one at a time and in order
RECURSIVE ExpectedConcernIndicators(_)
ExpectedConcernIndicators(concerns) ==
  IF concerns = <<>> THEN <<>>
  ELSE LET c == concerns[1]
           alert == ContainsIgnoringCase(c, <<"d", "e", "e", "p", "f", "a", "k", "e">>)
                    \/ ContainsIgnoringCase(c, <<"s", "y", "n", "t", "h", "e", "t", "i", "c">>)
           image == ContainsIgnoringCase(c, <<"q", "u", "a", "l", "i", "t", "y">>)
                    \/ ContainsIgnoringCase(c, <<"b", "l", "u", "r">>)
       IN  (IF alert
            THEN << [name |-> "AI Detection Alert", detected |-> TRUE,
                     severity |-> "high", description |-> Quoted(c)] >>
            ELSE IF image
            THEN << [name |-> "Image Quality Issue", detected |-> TRUE,
                     severity |-> "low", description |-> Quoted(c)] >>
            ELSE <<>>)
           \o ExpectedConcernIndicators(Tail(concerns))

\* C16: each concern, in input order, gives at most one indicator: AI
\* Detection Alert (high, described by the concern itself) if it contains
\* deepfake or synthetic in any letter case, otherwise Image Quality Issue
\* (low) if it contains quality or blur, otherwise nothing; absent or empty
\* concerns give none.
C16_ConcernIndicators ==
  Returned("analyzeDeepfakeRisk") =>
    SelectSeq(ret.indicators, IsConcernIndicator)
      = ExpectedConcernIndicators(OrEmpty(call.props.concerns))

\* a concern matching both groups gave the alert alone, followed by the
\* quality issue of the next concern
C16_Witness ==
  /\ Returned("analyzeDeepfakeRisk")
  /\ call.props.concerns = Some(<< <<"s", "y", "n", "t", "h", "e", "t", "i", "c", " ", "b", "l", "u", "r">>, <<"Q", "u", "a", "l", "i", "t", "y">> >>)
  /\ NamedCount(ret.indicators, "AI Detection Alert") = 1
  /\ NamedCount(ret.indicators, "Image Quality Issue") = 1
  /\ ret.indicators[Len(ret.indicators)].name = "Image Quality Issue"

----------------------------------------------------------------------------
(* The field validators called on their own: validateDateOfBirth,          *)
(* validateIndexNumber, validateAcademicData                               *)

\* a subjects list of the academic inputs holds at most MaxSubjects entries
MaxSubjects == 3

Rep(c, n) == [i \in 1..n |-> c]

DayStrings == { <<"0", "0">>, <<"0", "1">>, <<"1", "5">>, <<"3", "1">>, <<"9", "9">> }

MonthStrings == { <<"0", "0">>, <<"0", "1">>, <<"0", "2">>, <<"1", "2">>, <<"1", "3">>, <<"9", "9">> }

YearStrings ==
  { <<"0", "0", "5", "0">>, <<"1", "9", "8", "5">>, <<"1", "9", "8", "6">>, <<"1", "9", "8", "7">>, <<"2", "0", "1", "0">>, <<"2", "0", "1", "1">>, <<"2", "0", "1", "2">>, <<"2", "0", "1", "3">>,
    <<"2", "0", "2", "6">>, <<"2", "0", "2", "7">>, <<"2", "0", "3", "0">> }

\* every day, month and year above in each of the three formats, and strings
\* that are in none of them
DobInputs ==
  { d \o <<"/">> \o m \o <<"/">> \o y :
      d \in DayStrings, m \in MonthStrings, y \in YearStrings }
  \cup { y \o <<"-">> \o m \o <<"-">> \o d :
           d \in DayStrings, m \in MonthStrings, y \in YearStrings }
  \cup { d \o <<"-">> \o m \o <<"-">> \o y :
           d \in DayStrings, m \in MonthStrings, y \in YearStrings }
  \cup { <<>>, <<"1", "/", "1", "/", "2", "0", "0", "0">>, <<"0", "1", "/", "0", "1", "-", "2", "0", "0", "0">>, <<"2", "0", "0", "0", "/", "0", "1", "/", "0", "1">>, <<"0", "1", ".", "0", "1", ".", "2", "0", "0", "0">>,
         <<"0", "1", "/", "0", "1", "/", "2", "0", "0", "0", " ">>, <<" ", "0", "1", "/", "0", "1", "/", "2", "0", "0", "0">>, <<"0", "1", "/", "0", "1", "/", "2", "0", "0", "x">>, <<"0", "1", "/", "0", "1", "/", "2", "0", "0", "0", "0">>,
         <<"2", "0", "0", "0", "-", "1", "-", "0", "1">>, <<"1", "5", " ", "0", "6", " ", "2", "0", "0", "0">> }

\* the shapes of an index number with every length from one below the least
\* to one above the most, in upper and lower case, bare and padded
IndexBodies ==
  { Rep("7", k) \o <<"/">> \o Rep("2", y) : k \in 7..13, y \in 3..5 }
  \cup { Rep("0", a) \o <<"/">> \o Rep("3", b) \o <<"/">> \o Rep("2", y) :
           a \in 1..5, b \in 2..6, y \in 3..5 }
  \cup { Rep(l, a) \o Rep("4", b) : l \in {"K", "k"}, a \in 0..4, b \in 5..11 }
  \cup { <<"1", "2", "3", "4", "5", "6", "7", "8", "-", "2", "0", "2", "3">>, <<"1", "2", "3", "4", " ", "5", "6", "7", "8", "/", "2", "0", "2", "3">>, <<"A", "B", "_", "1", "2", "3", "4", "5", "6">>, <<"A", "1", "B", "2", "3", "4", "5", "6", "7">>,
         <<"1", "2", "3", "4", "5", "6", "7", "8", "/", "2", "0", "2", "3", "/">>, <<"/", "1", "2", "3", "4", "5", "6", "7", "8", "/", "2", "0", "2", "3">>, <<"A", "B", "C", "1", "2", "3", "4", "5", "6", "7", "X">>, <<"1", "2", "3", "4", "5", "6", "7", "8", "/", "2", "0", "a", "3">> }

IndexInputs ==
  { <<>>, <<" ">>, <<" ", "\t", "\n">> }
  \cup IndexBodies
  \cup { <<" ">> \o b \o <<" ", "\n">> : b \in IndexBodies }
  \cup { <<"\t">> \o b : b \in IndexBodies }

AcademicSubjects ==
  { Subject(<<"M", "a", "t", "h", "s">>, Absent), Subject(<<"B", "i", "o">>, Some(7)), Subject(<<"P", "h", "y">>, Some(12)) }

AcademicSubjectLists ==
  {Absent, Some(SubjectsSeven), Some(SubjectsUnscored)}
  \cup { Some(q) : q \in SeqsUpTo(AcademicSubjects, MaxSubjects) }

\* every total from one below 0 to two above the largest sum of a list
AcademicTotals ==
  {Absent} \cup { Some(n) : n \in -1..(12 * MaxSubjects + 2) } \cup { Some(n) : n \in 40..52 }

AcademicInputs ==
  {Absent}
  \cup { Structured(NameAnn, IndexStandard, DobFifteen, GenderMale, g, q, t) :
           g \in {GradeBPlus, GradeF}, q \in AcademicSubjectLists,
           t \in AcademicTotals }

CallValidateDateOfBirth ==
  /\ pc = "idle"
  /\ \E dob \in DobInputs :
       /\ call' = [fn |-> "validateDateOfBirth", dob |-> dob]
       /\ ret' = validateDateOfBirth(dob, now)
  /\ pc' = "returned"
  /\ UNCHANGED <<now, ticks, scanVars>>

CallValidateIndexNumber ==
  /\ pc = "idle"
  /\ \E indexNumber \in IndexInputs :
       /\ call' = [fn |-> "validateIndexNumber", indexNumber |-> indexNumber]
       /\ ret' = validateIndexNumber(indexNumber)
  /\ pc' = "returned"
  /\ UNCHANGED <<now, ticks, scanVars>>

CallValidateAcademicData ==
  /\ pc = "idle"
  /\ \E data \in AcademicInputs :
       /\ call' = [fn |-> "validateAcademicData", data |-> data]
       /\ ret' = validateAcademicData(data)
  /\ pc' = "returned"
  /\ UNCHANGED <<now, ticks, scanVars>>

NextFields ==
  \/ Tick
  \/ CallValidateDateOfBirth
  \/ CallValidateIndexNumber
  \/ CallValidateAcademicData
  \/ Return

SpecFields == Init /\ [][NextFields]_vars

----------------------------------------------------------------------------
(* Properties of the field validators *)

DigitsAt(s, positions) == \A i \in positions : IsDigit(s[i])

\* which of the three date formats the string is written in, if any
DobFormat(s) ==
  IF Len(s) # 10 THEN "none"
  ELSE IF DigitsAt(s, {1, 2, 4, 5, 7, 8, 9, 10}) /\ s[3] = "/" /\ s[6] = "/"
  THEN "DD/MM/YYYY"
  ELSE IF DigitsAt(s, {1, 2, 3, 4, 6, 7, 9, 10}) /\ s[5] = "-" /\ s[8] = "-"
  THEN "YYYY-MM-DD"
  ELSE IF DigitsAt(s, {1, 2, 4, 5, 7, 8, 9, 10}) /\ s[3] = "-" /\ s[6] = "-"
  THEN "DD-MM-YYYY"
  ELSE "none"

\* the decimal number written at positions from..to
RECURSIVE Field(_, _, _)
Field(s, from, to) ==
  IF to < from THEN 0
  ELSE 10 * Field(s, from, to - 1) + DigitValue(s[to])

DobYear(s) ==
  IF DobFormat(s) = "YYYY-MM-DD" THEN Field(s, 1, 4) ELSE Field(s, 7, 10)

DobMonth(s) ==
  IF DobFormat(s) = "YYYY-MM-DD" THEN Field(s, 6, 7) ELSE Field(s, 4, 5)

DobDay(s) ==
  IF DobFormat(s) = "YYYY-MM-DD" THEN Field(s, 9, 10) ELSE Field(s, 1, 2)

DobAge(s) == now.year - DobYear(s)

DobNotAfterToday(s) ==
  DateOf(DobYear(s), DobMonth(s) - 1, DobDay(s)) <= Today(now)

SlashPositions(s) == { i \in 1..Len(s) : s[i] = "/" }

DigitRun(s, from, to) == \A i \in from..to : IsDigit(s[i])

\* 8-12 digits '/' 4 digits
ShapeStandard(s) ==
  \E p \in 1..Len(s) :
    /\ SlashPositions(s) = {p}
    /\ p - 1 \in 8..12 /\ Len(s) - p = 4
    /\ DigitRun(s, 1, p - 1) /\ DigitRun(s, p + 1, Len(s))

\* 2-4 digits '/' 3-5 digits '/' 4 digits
ShapeAlternative(s) ==
  \E p \in 1..Len(s) : \E q \in (p + 1)..Len(s) :
    /\ SlashPositions(s) = {p, q}
    /\ p - 1 \in 2..4 /\ q - p - 1 \in 3..5 /\ Len(s) - q = 4
    /\ DigitRun(s, 1, p - 1) /\ DigitRun(s, p + 1, q - 1)
    /\ DigitRun(s, q + 1, Len(s))

\* 1-3 letters followed by 6-10 digits
ShapeCode(s) ==
  \E k \in 1..3 :
    /\ Len(s) - k \in 6..10
    /\ \A i \in 1..k : IsUpper(s[i])
    /\ DigitRun(s, k + 1, Len(s))

InIndexShape(s) == ShapeStandard(s) \/ ShapeAlternative(s) \/ ShapeCode(s)

\* C18: validateIndexNumber returns true exactly for the strings that, trimmed
\* of surrounding whitespace and uppercased, are in full one of the three
\* shapes, and false for every other string, the empty one included.
C18_IndexNumberShapes ==
  Returned("validateIndexNumber") =>
    (ret <=> InIndexShape(toUpperCase(trim(call.indexNumber))))

\* a padded lower-case code was accepted
C18_Witness ==
  /\ Returned("validateIndexNumber")
  /\ ret
  /\ call.indexNumber # toUpperCase(call.indexNumber)
  /\ call.indexNumber # trim(call.indexNumber)

\* the sum of the points of the first n subjects, a missing points counting 0
RECURSIVE PointsOfFirst(_, _)
PointsOfFirst(subjects, n) ==
  IF n = 0 THEN 0
  ELSE PointsOfFirst(subjects, n - 1)
       + (IF subjects[n].points = <<>> THEN 0 ELSE subjects[n].points[1])

PointsDifference(d) ==
  LET sum == PointsOfFirst(d.subjects[1], Len(d.subjects[1]))
      gap == sum - d.totalPoints[1]
  IN  IF gap < 0 THEN -gap ELSE gap

PointsContradict(d) ==
  /\ d.subjects # <<>> /\ d.subjects[1] # <<>>
  /\ d.totalPoints # <<>>
  /\ PointsDifference(d) > 1

\* C19: on present structured data validateAcademicData gives pointsValid
\* false exactly when the subject list is non-empty, totalPoints is present
\* and the sum of the subjects' points differs from totalPoints by more than
\* 1; on absent data all four academic flags are false.
C19_PointsValid ==
  Returned("validateAcademicData") =>
    /\ ~ret.threw
    /\ IF call.data = <<>>
       THEN ~ret.gradesValid /\ ~ret.meanGradeValid
            /\ ~ret.pointsValid /\ ~ret.subjectsComplete
       ELSE ret.pointsValid <=> ~PointsContradict(call.data[1])

\* the sum was exactly one point away from totalPoints and passed
C19_Witness ==
  /\ Returned("validateAcademicData")
  /\ call.data # <<>>
  /\ call.data[1].subjects # <<>> /\ call.data[1].subjects[1] # <<>>
  /\ call.data[1].totalPoints # <<>>
  /\ PointsDifference(call.data[1]) = 1
  /\ ret.pointsValid

----------------------------------------------------------------------------
(* The same call made twice: a caller keeps the first result, lets time    *)
(* pass, calls again with the same arguments and holds both results.       *)

\* the clock advances at most MaxRepeatTicks days from RepeatStart
MaxRepeatTicks == 2

RepeatStart == [year |-> 2026, month |-> 12, day |-> 30]

RepeatDocuments ==
  {Absent}
  \cup { Document(c, Structured(NameAnn, IndexStandard, d, GenderMale,
                               GradeBPlus, Some(SubjectsSeven), Some(49)), e) :
           c \in {49, 70, 100},
           d \in {DobFifteen, DobForty, DobFourteen, DobMalformed, Absent},
           e \in {Absent, Elements(Some(TRUE), Some(TRUE), Some(TRUE), Some(TRUE))} }

RepeatScores == {Absent, Some(50), Some(81)}

InitRepeat ==
  /\ now = RepeatStart
  /\ ticks = 0
  /\ pc = "idle"
  /\ call = NoCall
  /\ ret = <<>>
  /\ ScanInit

\* time passes before the first call or between the two calls
TickRepeat ==
  /\ pc \in {"idle", "returned"}
  /\ ticks < MaxRepeatTicks
  /\ now' = NextDay(now)
  /\ ticks' = ticks + 1
  /\ UNCHANGED <<pc, call, ret, scanVars>>

FirstValidateOCRResult ==
  /\ pc = "idle"
  /\ \E d \in RepeatDocuments :
       /\ call' = [fn |-> "validateOCRResult", ocrResult |-> d,
                   biometricScore |-> Absent, livenessScore |-> Absent,
                   at |-> now]
       /\ ret' = validateOCRResult(d, now)
  /\ pc' = "returned"
  /\ UNCHANGED <<now, ticks, scanVars>>

FirstCalculateOverallRiskScore ==
  /\ pc = "idle"
  /\ \E d \in RepeatDocuments, b \in RepeatScores, l \in RepeatScores :
       /\ call' = [fn |-> "calculateOverallRiskScore", ocrResult |-> d,
                   biometricScore |-> b, livenessScore |-> l, at |-> now]
       /\ ret' = calculateOverallRiskScore(d, b, l, now)
  /\ pc' = "returned"
  /\ UNCHANGED <<now, ticks, scanVars>>

\* the same function on the same arguments, at the present time
CallAgain ==
  /\ pc = "returned"
  /\ call' = [call EXCEPT !.at = now]
  /\ ret' = [first   |-> ret,
             firstAt |-> call.at,
             second  |-> IF call.fn = "validateOCRResult"
                         THEN validateOCRResult(call.ocrResult, now)
                         ELSE calculateOverallRiskScore(call.ocrResult,
                                call.biometricScore, call.livenessScore, now)]
  /\ pc' = "repeated"
  /\ UNCHANGED <<now, ticks, scanVars>>

ReturnRepeated ==
  /\ pc = "repeated"
  /\ pc' = "idle"
  /\ call' = NoCall
  /\ ret' = <<>>
  /\ UNCHANGED <<now, ticks, scanVars>>

NextRepeat ==
  \/ TickRepeat
  \/ FirstValidateOCRResult
  \/ FirstCalculateOverallRiskScore
  \/ CallAgain
  \/ ReturnRepeated

SpecRepeat == InitRepeat /\ [][NextRepeat]_vars

\* C11 as stated: the same document and the same optional scores fed twice
\* into calculateOverallRiskScore or validateOCRResult give identical
\* results, whenever the two calls are made.
C11_SameArgumentsSameResult ==
  pc = "repeated" => ret.second = ret.first

\* C11 as the code has it: the same arguments give identical results when
\* both calls are made in the same calendar year; the age test of the date of
\* birth reads the current year, so across a change of year they can differ.
C11_SameYearSameResult ==
  (pc = "repeated" /\ ret.firstAt.year = call.at.year)
    => ret.second = ret.first

\* a document with a date of birth was scored on two different days of one
\* year, with the same result
C11_Witness ==
  /\ pc = "repeated"
  /\ call.fn = "calculateOverallRiskScore"
  /\ call.ocrResult # <<>>
  /\ call.ocrResult[1].structured[1].dateOfBirth = DobForty
  /\ ret.firstAt.year = call.at.year
  /\ ret.firstAt # call.at
  /\ ret.second = ret.first

----------------------------------------------------------------------------
(* Documents as the OCR service may return them: the subjects come from    *)
(* parsed JSON, so an entry may lack its name, its grade or its points.    *)

UntypedSubjects ==
  { Subject(<<"M", "a", "t", "h", "s">>, Some(7)),
    [name |-> Some(<<"B", "i", "o">>), grade |-> Absent, points |-> Some(7)],
    [name |-> Some(<<"P", "h", "y">>), grade |-> Some(Str1("B")), points |-> Absent],
    [name |-> Absent, grade |-> Some(Str1("A")), points |-> Some(12)] }

UntypedDocuments ==
  {Absent}
  \cup { Document(c, s, e) :
           c \in {49, 70},
           s \in {Absent}
                 \cup { Structured(NameAnn, IndexStandard, DobFifteen, GenderMale,
                                   GradeBPlus, q, Absent) :
                          q \in {Absent}
                                \cup { Some(l) : l \in SeqsUpTo(UntypedSubjects,
                                                               MaxSubjects) } },
           e \in {Absent, Elements(Some(TRUE), Some(TRUE), Some(TRUE), Some(TRUE))} }

UntypedValidateOCRResult ==
  /\ pc = "idle"
  /\ \E d \in UntypedDocuments :
       /\ call' = [NoCall EXCEPT !.fn = "validateOCRResult", !.ocrResult = d]
       /\ ret' = validateOCRResult(d, now)
  /\ pc' = "returned"
  /\ UNCHANGED <<now, ticks, scanVars>>

UntypedCalculateOverallRiskScore ==
  /\ pc = "idle"
  /\ \E d \in UntypedDocuments, b \in {Absent, Some(50)} :
       /\ call' = [NoCall EXCEPT !.fn = "calculateOverallRiskScore",
                                 !.ocrResult = d, !.biometricScore = b]
       /\ ret' = calculateOverallRiskScore(d, b, Absent, now)
  /\ pc' = "returned"
  /\ UNCHANGED <<now, ticks, scanVars>>

NextUntyped ==
  \/ UntypedValidateOCRResult
  \/ UntypedCalculateOverallRiskScore
  \/ Return

SpecUntyped == Init /\ [][NextUntyped]_vars

\* C12: validateOCRResult and calculateOverallRiskScore return a result for
\* every input and never raise a fault, whichever sections are absent and
\* whichever fields of a subject entry are missing.
C12_NeverThrows ==
  (Returned("validateOCRResult") \/ Returned("calculateOverallRiskScore"))
    => ~ret.threw

----------------------------------------------------------------------------
(* The scan screen: ForensicScanner.handleScan as a process that yields at *)
(* each await, the handlers of the screen that may run while it waits, and *)
(* the OCR, biometric and database services answering.                     *)
(* events[n] is the history of the n-th scan: whether a biometric capture  *)
(* existed when it started, its steps in the order they happened, what the *)
(* OCR call and the comparison resolved to (compared tells whether the     *)
(* comparison resolved at all), what was handed to onScanComplete and the  *)
(* record handed to the insert.                                            *)

\* at most MaxScans scans are started
MaxScans == 2

Files == {"certificate.jpg", "id-card.png"}

PreviewOf(file) == <<"blob", file>>

\* WebcamCapture reports a livenessScore of 0.85 to 0.95, in hundredths here
Captures ==
  { [capturedImage |-> "selfie", livenessScore |-> l] : l \in {85} }

\* what extractText resolves to: null on any failure, else the document
ScanResults ==
  { Absent,
    Document(49, StructuredPerfect, Absent),
    Document(70, StructuredPerfect,
             Elements(Some(TRUE), Some(TRUE), Some(TRUE), Some(TRUE))) }

\* what verifyBiometrics resolves to: null on any failure, else the result
VerifyResults == { Absent, Some([matchScore |-> 0]), Some([matchScore |-> 90]) }

\* isScanning || isExtracting || isBiometricVerifying
isProcessing == isScanning \/ isExtracting \/ isBiometricVerifying

\* add a step to the history of the running scan
Step(what) ==
  [events EXCEPT ![Len(events)].steps = Append(@, what)]

Steps2(first, second) ==
  [events EXCEPT ![Len(events)].steps = Append(Append(@, first), second)]

\* handleFileSelect and handleDrop: a new document replaces the state of the
\* screen; a running scan keeps the file it started with
HandleFileSelect ==
  /\ \E file \in Files :
       /\ uploadedFile' = Some(file)
       /\ previewUrl' = Some(PreviewOf(file))
  /\ showResults' = FALSE
  /\ biometricCapture' = Absent
  /\ useOCRResult' = Absent
  /\ biometricVerifyResult' = Absent
  /\ dashboard' = [showResults |-> FALSE, ocrResult |-> Absent]
  /\ UNCHANGED <<isScanning, isExtracting, isBiometricVerifying, scanPc, frame,
                 events, onScanCompleteArgs, pendingInserts, verifications>>
  /\ UNCHANGED engineVars

\* the Remove button is shown while there is a preview
HandleRemove ==
  /\ IsPresent(previewUrl)
  /\ uploadedFile' = Absent
  /\ previewUrl' = Absent
  /\ showResults' = FALSE
  /\ biometricCapture' = Absent
  /\ useOCRResult' = Absent
  /\ biometricVerifyResult' = Absent
  /\ dashboard' = [showResults |-> FALSE, ocrResult |-> Absent]
  /\ UNCHANGED <<isScanning, isExtracting, isBiometricVerifying, scanPc, frame,
                 events, onScanCompleteArgs, pendingInserts, verifications>>
  /\ UNCHANGED engineVars

\* the liveness sequence of the webcam ends and hands over its capture
HandleBiometricCapture ==
  /\ \E capture \in Captures : biometricCapture' = Some(capture)
  /\ UNCHANGED <<uploadedFile, previewUrl, isScanning, showResults, isExtracting,
                 useOCRResult, isBiometricVerifying, biometricVerifyResult,
                 scanPc, frame, events, dashboard, onScanCompleteArgs,
                 pendingInserts, verifications>>
  /\ UNCHANGED engineVars

HandleBiometricReset ==
  /\ IsPresent(biometricCapture) \/ IsPresent(biometricVerifyResult)
  /\ biometricCapture' = Absent
  /\ biometricVerifyResult' = Absent
  /\ UNCHANGED <<uploadedFile, previewUrl, isScanning, showResults, isExtracting,
                 useOCRResult, isBiometricVerifying, scanPc, frame, events,
                 dashboard, onScanCompleteArgs, pendingInserts, verifications>>
  /\ UNCHANGED engineVars

\* the Scan button, enabled when !(isProcessing || !uploadedFile): handleScan
\* runs to its first await with the state of the render it was created in
HandleScan ==
  /\ ~isProcessing
  /\ IsPresent(uploadedFile)
  /\ Len(events) < MaxScans
  /\ isScanning' = TRUE
  /\ showResults' = FALSE
  /\ frame' = [uploadedFile          |-> uploadedFile,
               previewUrl            |-> previewUrl,
               biometricCapture      |-> biometricCapture,
               biometricVerifyResult |-> biometricVerifyResult,
               result                |-> Absent]
  /\ events' = Append(events, [withCapture  |-> IsPresent(biometricCapture),
                               steps        |-> <<>>,
                               document     |-> uploadedFile,
                               result       |-> Absent,
                               compared     |-> FALSE,
                               verification |-> Absent,
                               reported     |-> Absent,
                               record       |-> Absent])
  /\ scanPc' = "initializing"
  /\ UNCHANGED <<uploadedFile, previewUrl, biometricCapture, isExtracting,
                 useOCRResult, isBiometricVerifying, biometricVerifyResult,
                 dashboard, onScanCompleteArgs, pendingInserts, verifications>>
  /\ UNCHANGED engineVars

\* after the first timeout: extractText(uploadedFile) is called
StartOCR ==
  /\ scanPc = "initializing"
  /\ isExtracting' = TRUE
  /\ useOCRResult' = Absent
  /\ events' = Step("ocrStart")
  /\ scanPc' = "ocr"
  /\ UNCHANGED <<uploadedFile, previewUrl, biometricCapture, isScanning,
                 showResults, isBiometricVerifying, biometricVerifyResult, frame,
                 dashboard, onScanCompleteArgs, pendingInserts, verifications>>
  /\ UNCHANGED engineVars

\* extractText resolves; with a capture and a preview in the frame
\* verifyBiometrics is called at once
OCRCompletes ==
  /\ scanPc = "ocr"
  /\ \E result \in ScanResults :
       /\ useOCRResult' = result
       /\ frame' = [frame EXCEPT !.result = result]
       /\ events' =
            [(IF IsPresent(frame.biometricCapture) /\ IsPresent(frame.previewUrl)
              THEN Steps2("ocrDone", "bioStart") ELSE Step("ocrDone"))
             EXCEPT ![Len(events)].result = result]
  /\ isExtracting' = FALSE
  /\ IF IsPresent(frame.biometricCapture) /\ IsPresent(frame.previewUrl)
     THEN /\ isBiometricVerifying' = TRUE
          /\ biometricVerifyResult' = Absent
          /\ scanPc' = "bio"
     ELSE /\ scanPc' = "logs"
          /\ UNCHANGED <<isBiometricVerifying, biometricVerifyResult>>
  /\ UNCHANGED <<uploadedFile, previewUrl, biometricCapture, isScanning,
                 showResults, dashboard, onScanCompleteArgs, pendingInserts,
                 verifications>>
  /\ UNCHANGED engineVars

\* verifyBiometrics resolves: the hook keeps the result, handleScan drops it
BiometricCompletes ==
  /\ scanPc = "bio"
  /\ \E verification \in VerifyResults :
       /\ biometricVerifyResult' = verification
       /\ events' = [Step("bioDone") EXCEPT
                       ![Len(events)].compared = TRUE,
                       ![Len(events)].verification = verification]
  /\ isBiometricVerifying' = FALSE
  /\ scanPc' = "logs"
  /\ UNCHANGED <<uploadedFile, previewUrl, biometricCapture, isScanning,
                 showResults, isExtracting, useOCRResult, frame, dashboard,
                 onScanCompleteArgs, pendingInserts, verifications>>
  /\ UNCHANGED engineVars

\* biometricVerifyResult?.matchScore || (biometricCapture ?
\*   biometricCapture.livenessScore * 100 : undefined), on the frame's values
BiometricScoreOf(f) ==
  LET matchScore == IF IsPresent(f.biometricVerifyResult)
                    THEN Get(f.biometricVerifyResult).matchScore ELSE 0
  IN  IF matchScore # 0 THEN Some(matchScore)
      ELSE IF IsPresent(f.biometricCapture)
      THEN Some(Get(f.biometricCapture).livenessScore)
      ELSE Absent

\* result ? Math.round((1 - result.confidence) * 100) : 50
ScanRiskScore(result) ==
  IF IsPresent(result) THEN 100 - Get(result).confidence ELSE 50

ScanVerdict(result) ==
  IF IsPresent(result) /\ Get(result).confidence >= 70 THEN "verified"
  ELSE IF IsPresent(result) THEN "flagged"
  ELSE "rejected"

ScanFraudType(result) ==
  LET elements == IF IsPresent(result) THEN Get(result).verificationElements
                  ELSE Absent
      has(field) == IsPresent(elements) /\ Truthy(Get(elements)[field])
  IN  IF ~has("hasWatermark") /\ ~has("hasOfficialStamp")
      THEN Some("Missing Security")
      ELSE IF IsPresent(result) /\ Get(result).confidence < 50
      THEN Some("Low Confidence")
      ELSE Absent

\* result?.structured?.<field> || null
StructuredField(result, field) ==
  IF IsPresent(result) /\ IsPresent(Get(result).structured)
     /\ OrEmpty(Get(Get(result).structured)[field]) # <<>>
  THEN Get(Get(result).structured)[field]
  ELSE Absent

\* the row handed to supabase.from('verifications').insert
VerificationRecord(f, biometricScore) ==
  [document_name     |-> Get(f.uploadedFile),
   student_name      |-> StructuredField(f.result, "studentName"),
   index_number      |-> StructuredField(f.result, "indexNumber"),
   verdict           |-> ScanVerdict(f.result),
   risk_score        |-> ScanRiskScore(f.result),
   fraud_type        |-> ScanFraudType(f.result),
   biometric_score   |-> IF OrZero(biometricScore) # 0 THEN biometricScore
                         ELSE Absent,
   ocr_confidence    |-> IF IsPresent(f.result)
                         THEN Some(Get(f.result).confidence) ELSE Absent,
   validation_passed |-> IsPresent(f.result) /\ Get(f.result).confidence >= 70]

ComparisonNotAwaited == scanPc \in {"bio", "logs"}

\* handleScan gets past `await verifyBiometrics(...)` and the log timeouts
ComparisonAwaited == scanPc = "logs"

\* the last timeout ends: the result is reported to the Dashboard through
\* onScanComplete and the insert of the verification record is sent
ScanFinish ==
  /\ ComparisonAwaited
  /\ isScanning' = FALSE
  /\ showResults' = TRUE
  /\ onScanCompleteArgs' =
       Some([ocrResult |-> frame.result, biometricMatch |-> BiometricScoreOf(frame)])
  /\ dashboard' = [showResults |-> TRUE, ocrResult |-> frame.result]
  /\ pendingInserts' =
       pendingInserts
       \cup { [scan   |-> Len(events),
               record |-> VerificationRecord(frame, BiometricScoreOf(frame))] }
  /\ events' = [Steps2("reported", "insertStart") EXCEPT
                  ![Len(events)].reported = onScanCompleteArgs',
                  ![Len(events)].record =
                    Some(VerificationRecord(frame, BiometricScoreOf(frame)))]
  /\ scanPc' = "idle"
  /\ UNCHANGED <<uploadedFile, previewUrl, biometricCapture, isExtracting,
                 useOCRResult, isBiometricVerifying, biometricVerifyResult, frame,
                 verifications>>
  /\ UNCHANGED engineVars

\* the database answers an insert: the row is stored, or the insert fails
\* and the failure is logged
InsertCompletes ==
  /\ \E insert \in pendingInserts :
       /\ pendingInserts' = pendingInserts \ {insert}
       /\ \E stored \in BOOLEAN :
            /\ verifications' = IF stored THEN Append(verifications, insert.record)
                                ELSE verifications
            /\ events' = [events EXCEPT ![insert.scan].steps =
                            Append(@, IF stored THEN "inserted" ELSE "insertFailed")]
  /\ UNCHANGED <<uploadedFile, previewUrl, biometricCapture, isScanning,
                 showResults, isExtracting, useOCRResult, isBiometricVerifying,
                 biometricVerifyResult, scanPc, frame, dashboard,
                 onScanCompleteArgs>>
  /\ UNCHANGED engineVars

NextScan ==
  \/ HandleFileSelect
  \/ HandleRemove
  \/ HandleBiometricCapture
  \/ HandleBiometricReset
  \/ HandleScan
  \/ StartOCR
  \/ OCRCompletes
  \/ BiometricCompletes
  \/ ScanFinish
  \/ InsertCompletes

SpecScan == Init /\ [][NextScan]_vars

----------------------------------------------------------------------------
(* Properties of the scan *)

\* the place of the first `what` among the steps, 0 when it has not happened
StepAt(steps, what) ==
  IF \E i \in 1..Len(steps) : steps[i] = what
  THEN CHOOSE i \in 1..Len(steps) :
         steps[i] = what /\ \A j \in 1..(i - 1) : steps[j] # what
  ELSE 0

\* `later` has happened only after `earlier` has
Precedes(steps, earlier, later) ==
  StepAt(steps, later) # 0 =>
    (StepAt(steps, earlier) # 0 /\ StepAt(steps, earlier) < StepAt(steps, later))

Outcomes == {"reported", "insertStart", "inserted", "insertFailed"}

\* C20: within one scan the OCR call completes before the biometric
\* comparison is started, and the OCR call and, for a scan started with a
\* biometric capture, the biometric comparison complete before the result is
\* reported through onScanComplete and before the verification record is
\* inserted.
C20_ScanStepsOrdered ==
  \A n \in 1..Len(events) :
    LET steps == events[n].steps
    IN  /\ Precedes(steps, "ocrStart", "ocrDone")
        /\ Precedes(steps, "ocrDone", "bioStart")
        /\ Precedes(steps, "bioStart", "bioDone")
        /\ \A outcome \in Outcomes :
             /\ Precedes(steps, "ocrDone", outcome)
             /\ events[n].withCapture => Precedes(steps, "bioDone", outcome)

\* a scan started with a capture went through every step and stored its record
C20_Witness ==
  \E n \in 1..Len(events) :
    /\ events[n].withCapture
    /\ events[n].steps = <<"ocrStart", "ocrDone", "bioStart", "bioDone",
                           "reported", "insertStart", "inserted">>

\* the scans that have handed their result to onScanComplete
Reported == { n \in 1..Len(events) : IsPresent(events[n].reported) }

\* the comparison of scan n resolved with a failure
ComparisonFailed(n) == events[n].compared /\ ~IsPresent(events[n].verification)

\* the comparison of scan n resolved with a result
ComparisonSucceeded(n) == events[n].compared /\ IsPresent(events[n].verification)

\* C21: a failure of the OCR call or of the biometric comparison does not
\* abort the scan, and the scan hands on the document as absent when the OCR
\* call failed and the biometric score as absent when the comparison failed.
C21_FailuresHandedOnAsAbsent ==
  \A n \in Reported :
    /\ ~IsPresent(events[n].result)
         => ~IsPresent(Get(events[n].reported).ocrResult)
    /\ ComparisonFailed(n)
         => /\ ~IsPresent(Get(events[n].reported).biometricMatch)
            /\ ~IsPresent(Get(events[n].record).biometric_score)

\* what the Risk Scoring Engine gives for the OCR result and the biometric
\* score of scan n
EngineRisk(n) ==
  calculateOverallRiskScore(events[n].result,
                            Get(events[n].reported).biometricMatch, Absent, now)

\* C22: for every completed scan the verdict and the risk score of the
\* verification record are the verdict and the riskScore that
\* calculateOverallRiskScore gives for the scan's OCR result and biometric
\* score.
C22_RecordCarriesEngineResult ==
  \A n \in Reported :
    /\ Get(events[n].record).verdict = EngineRisk(n).verdict
    /\ Get(events[n].record).risk_score = EngineRisk(n).riskScore

----------------------------------------------------------------------------
(* Further properties of the engine *)

\* what the security check of validateOCRResult adds for a document
SecurityFinding(document) ==
  SecurityCheck(validateVerificationElements(document.verificationElements))

\* C23: validateOCRResult never emits the warning 'Some security features not
\* detected' nor its deduction of 10: when hasSecurityFeatures is true at most
\* 2 markers are missing, and the security check deducts 0 or 20.
C23_SecurityWarningUnreachable ==
  /\ Returned("validateVerificationElements") =>
       (ret.hasSecurityFeatures => Len(ret.missingElements) <= 2)
  /\ Returned("validateOCRResult") =>
       /\ ~HasText(ret.warnings, "Some security features not detected")
       /\ IsPresent(call.ocrResult) =>
            /\ SecurityFinding(Get(call.ocrResult)).deduction \in {0, 20}
            /\ SecurityFinding(Get(call.ocrResult)).warnings = <<>>

\* a document with exactly two markers missing passed the security check
\* without a finding
C23_Witness ==
  /\ Returned("validateOCRResult")
  /\ IsPresent(call.ocrResult)
  /\ MissingCount(Get(call.ocrResult).verificationElements) = 2
  /\ SecurityFinding(Get(call.ocrResult)).deduction = 0
  /\ ~HasText(ret.errors, "Missing security features")

\* the document fails every check validateOCRResult makes on its structured
\* section and on its verification elements
FailsEveryCheck(document) ==
  LET sv == validateStudentData(document.structured, now)
      av == validateAcademicData(document.structured)
      vv == validateVerificationElements(document.verificationElements)
  IN  /\ ~sv.nameValid /\ ~sv.indexNumberValid /\ ~sv.dobValid
      /\ ~av.meanGradeValid /\ ~av.subjectsComplete /\ ~av.pointsValid
      /\ ~vv.hasSecurityFeatures

\* C24: for a present document isValid implies score >= 60, not isValid
\* implies score <= 90, and the score is 0 only when the confidence is below
\* 0.5 and the structured section and the verification elements fail every
\* check.
C24_ValidityBoundsScore ==
  (Returned("validateOCRResult") /\ IsPresent(call.ocrResult)) =>
    /\ ret.isValid => ret.score >= 60
    /\ ~ret.isValid => ret.score <= 90
    /\ ret.score = 0 =>
         /\ Get(call.ocrResult).confidence < 50
         /\ FailsEveryCheck(Get(call.ocrResult))

\* a valid document carried every warning and scored exactly 60
C24_Witness ==
  /\ Returned("validateOCRResult")
  /\ IsPresent(call.ocrResult)
  /\ ret.isValid
  /\ ret.score = 60
  /\ Len(ret.warnings) = 5

\* C25: without a document calculateOverallRiskScore gives a riskScore of 50
\* to 75 and never the verdict 'verified', whatever biometricScore and
\* livenessScore are supplied; with a document and neither optional score the
\* riskScore is at most 65.
C25_RiskBounds ==
  Returned("calculateOverallRiskScore") =>
    /\ ~IsPresent(call.ocrResult) =>
         /\ ret.riskScore \in 50..75
         /\ ret.verdict # "verified"
    /\ (/\ IsPresent(call.ocrResult)
        /\ ~IsPresent(call.biometricScore)
        /\ ~IsPresent(call.livenessScore)) => ret.riskScore <= 65

\* a document at confidence 0 with nothing valid in it and no optional score
\* reached 65
C25_Witness ==
  /\ Returned("calculateOverallRiskScore")
  /\ IsPresent(call.ocrResult)
  /\ ~IsPresent(call.biometricScore)
  /\ ~IsPresent(call.livenessScore)
  /\ ret.riskScore = 65

\* the two aggregating functions called on one day: the comparisons of results
\* across documents below are made under this specification
NextCompare ==
  \/ CallValidateOCRResult
  \/ CallCalculateOverallRiskScore
  \/ Return

SpecCompare == Init /\ [][NextCompare]_vars

\* verified < flagged < rejected
VerdictRank(verdict) ==
  IF verdict = "verified" THEN 0 ELSE IF verdict = "flagged" THEN 1 ELSE 2

WithConfidence(ocr, confidence) ==
  Some([Get(ocr) EXCEPT !.confidence = confidence])

WithMarker(ocr, field) ==
  Some([Get(ocr) EXCEPT
          !.verificationElements =
             Some([Get(Get(ocr).verificationElements) EXCEPT ![field] = Some(TRUE)])])

MarkerFields == {"hasWatermark", "hasQRCode", "hasOfficialStamp", "hasSignature"}

\* the inputs that differ from the call's in one respect, for the better
Improvements ==
  { [ocrResult |-> WithConfidence(call.ocrResult, c),
     biometricScore |-> call.biometricScore,
     livenessScore |-> call.livenessScore] :
      c \in { x \in RiskConfidences \cup ValidationConfidences :
                IsPresent(call.ocrResult) /\ x > Get(call.ocrResult).confidence } }
  \cup
  { [ocrResult |-> WithMarker(call.ocrResult, f),
     biometricScore |-> call.biometricScore,
     livenessScore |-> call.livenessScore] :
      f \in { x \in MarkerFields :
                /\ IsPresent(call.ocrResult)
                /\ IsPresent(Get(call.ocrResult).verificationElements)
                /\ ~Truthy(Get(Get(call.ocrResult).verificationElements)[x]) } }
  \cup
  { [ocrResult |-> call.ocrResult, biometricScore |-> Some(b),
     livenessScore |-> call.livenessScore] :
      b \in { x \in Scores : IsPresent(call.biometricScore)
                             /\ x > Get(call.biometricScore) } }
  \cup
  { [ocrResult |-> call.ocrResult, biometricScore |-> call.biometricScore,
     livenessScore |-> Some(l)] :
      l \in { x \in Scores : IsPresent(call.livenessScore)
                             /\ x > Get(call.livenessScore) } }

RiskOf(input) ==
  calculateOverallRiskScore(input.ocrResult, input.biometricScore,
                            input.livenessScore, now)

\* C26: with the rest of the input fixed, a higher OCR confidence, a higher
\* supplied biometricScore or livenessScore, or a security marker present
\* instead of missing never gives a higher riskScore nor a worse verdict.
C26_RiskMonotone ==
  Returned("calculateOverallRiskScore") =>
    \A better \in Improvements :
      LET risk == RiskOf(better)
      IN  /\ risk.riskScore <= ret.riskScore
          /\ VerdictRank(risk.verdict) <= VerdictRank(ret.verdict)

\* each kind of improvement lowered the riskScore of some call, and one moved
\* the verdict to a better class
C26_Witness ==
  /\ Returned("calculateOverallRiskScore")
  /\ IsPresent(call.ocrResult)
  /\ IsPresent(call.biometricScore)
  /\ \E better \in Improvements :
       /\ better.ocrResult # call.ocrResult
       /\ Get(better.ocrResult).confidence = Get(call.ocrResult).confidence
       /\ RiskOf(better).riskScore < ret.riskScore
       /\ VerdictRank(RiskOf(better).verdict) < VerdictRank(ret.verdict)
  /\ \E better \in Improvements :
       /\ better.biometricScore # call.biometricScore
       /\ RiskOf(better).riskScore < ret.riskScore

----------------------------------------------------------------------------
(* A further property of analyzeDeepfakeRisk *)

\* C27: a livenessScore below 60 gives the recommendation 'reject' and
\* isLikelyDeepfake, and a livenessScore from 60 to below 75 never gives
\* 'safe', whatever liveness markers and concerns are supplied.
C27_LivenessScoreBoundsRecommendation ==
  Returned("analyzeDeepfakeRisk") =>
    /\ call.props.livenessScore \in 0..59 =>
         (ret.recommendation = "reject" /\ ret.isLikelyDeepfake)
    /\ call.props.livenessScore \in 60..74 => ret.recommendation # "safe"

\* a score of 59 with nothing else against the face was rejected at 71
C27_Witness ==
  /\ Returned("analyzeDeepfakeRisk")
  /\ call.props.livenessScore = 59
  /\ Len(ret.indicators) = 1
  /\ ret.confidence = 71
  /\ ret.recommendation = "reject"

----------------------------------------------------------------------------
(* Fields the engine reads but does not use *)

\* the document with its gender replaced
WithGender(document, gender) ==
  LET d == Get(document)
  IN  Some([d EXCEPT !.structured =
              Some([Get(d.structured) EXCEPT !.gender = gender])])

\* the document with the grade of every subject replaced
WithGrades(document, grade) ==
  LET d  == Get(document)
      sd == Get(d.structured)
  IN  IF ~IsPresent(sd.subjects) THEN document
      ELSE Some([d EXCEPT !.structured =
                   Some([sd EXCEPT !.subjects =
                           Some([i \in 1..Len(Get(sd.subjects)) |->
                                   [Get(sd.subjects)[i] EXCEPT !.grade = grade]])])])

\* the document with the grade of its first subject replaced
WithFirstGrade(document, grade) ==
  LET d  == Get(document)
      sd == Get(d.structured)
  IN  IF ~IsPresent(sd.subjects) \/ OrEmpty(sd.subjects) = <<>> THEN document
      ELSE Some([d EXCEPT !.structured =
                   Some([sd EXCEPT !.subjects =
                           Some([Get(sd.subjects) EXCEPT ![1].grade = grade])])])

GenderInputs == {GenderMale, GenderOther, Absent}

GradeInputs == {Some(Str1("B")), GradeF}

\* the documents that differ from `document` in gender and subject grades only
GenderAndGradeVariants(document) ==
  { WithGrades(WithGender(document, g), gr) :
      g \in GenderInputs, gr \in GradeInputs }
  \cup { WithFirstGrade(WithGender(document, g), gr) :
           g \in {GenderMale, GenderOther}, gr \in {GradeF, Absent} }

HasStructured(document) ==
  IsPresent(document) /\ IsPresent(Get(document).structured)

\* C28: validateOCRResult and calculateOverallRiskScore return the same
\* result for documents that differ only in the gender and in the grades of
\* the subjects.
C28_GenderAndGradesIgnored ==
  /\ Returned("validateOCRResult") /\ HasStructured(call.ocrResult) =>
       \A other \in GenderAndGradeVariants(call.ocrResult) :
         validateOCRResult(other, now) = ret
  /\ Returned("calculateOverallRiskScore") /\ HasStructured(call.ocrResult) =>
       \A other \in GenderAndGradeVariants(call.ocrResult) :
         calculateOverallRiskScore(other, call.biometricScore,
                                   call.livenessScore, now) = ret

\* a document with an unknown gender was validated, and the same document
\* with a known gender and an invalid subject grade has the same result,
\* though the section validators tell the two apart
C28_Witness ==
  /\ Returned("validateOCRResult")
  /\ HasStructured(call.ocrResult)
  /\ Get(Get(call.ocrResult).structured).gender = GenderOther
  /\ LET other == WithFirstGrade(WithGender(call.ocrResult, GenderMale), GradeF)
         sd    == Get(call.ocrResult).structured
         so    == Get(other).structured
     IN  /\ other # call.ocrResult
         /\ ~validateStudentData(sd, now).genderValid
         /\ validateStudentData(so, now).genderValid
         /\ validateAcademicData(sd).gradesValid
         /\ ~validateAcademicData(so).gradesValid
         /\ validateOCRResult(other, now) = ret

----------------------------------------------------------------------------
(* Further properties of the scan *)

\* C29: whenever the facial comparison of a scan succeeds, the biometric
\* score handed to onScanComplete and written to the record's
\* biometric_score is the matchScore that comparison returned, a matchScore
\* of 0 included.
C29_ReportsComparisonOfSameScan ==
  \A n \in Reported :
    ComparisonSucceeded(n) =>
      /\ Get(events[n].reported).biometricMatch
           = Some(Get(events[n].verification).matchScore)
      /\ Get(events[n].record).biometric_score
           = Some(Get(events[n].verification).matchScore)

\* C30: when the document is replaced or removed while a scan is in
\* flight, the scan does not afterwards publish results for the previous
\* document: the results shown on the screen and on the Dashboard and the
\* record of the latest scan belong to the document that is uploaded.
C30_ResultsBelongToUploadedDocument ==
  showResults \/ dashboard.showResults =>
    /\ IsPresent(uploadedFile)
    /\ uploadedFile = events[Len(events)].document
    /\ IsPresent(events[Len(events)].record) =>
         Get(events[Len(events)].record).document_name = Get(uploadedFile)

====
